---- MODULE Spec2Model ----
(***************************************************************************)
(* Model of the summari.ai front end: the query-response normalizer of     *)
(* src/services/api.ts and the web-content link extractor of               *)
(* src/components/ResultsDisplay.tsx.                                      *)
(*                                                                         *)
(* JavaScript values are records of one uniform shape, tagged by t:        *)
(*   undefined, null, boolean (n = 0/1), number (n), string (s; a string   *)
(*   rendered from the clock also carries the instant in n), object (o, a  *)
(*   function from own keys to values), array (a, a sequence of values).   *)
(* TypeError is the abrupt completion of an expression that reads a        *)
(* property of undefined or null.                                          *)
(***************************************************************************)
EXTENDS Integers, Sequences, FiniteSets, TLC

VARIABLES
    now,        \* the wall clock read by new Date()
    raw,        \* response.data handed to normalizeQueryResponse
    resp,       \* what the last call of normalizeQueryResponse(raw) returned
    resp2,      \* what normalizeQueryResponse(resp) returned
    prevResp,   \* what the call before the last returned for the same raw
    text,       \* the web_content text handed to extractLinksFromWebContent
    links,      \* what the last call of extractLinksFromWebContent(text) returned
    prevLinks,  \* what the call before the last returned for the same text
    expandedWebSections,    \* the section labels shown in full
    pptTitle,   \* the title the render of a presentation result shows
    query,          \* the text of the query box
    selectedAction, \* the action chosen for the next query
    translateTo,    \* the language chosen for the next query
    loading,        \* the loading flag of the query console
    sent,           \* the number of query requests sent so far
    pending,        \* the calls of handleSearch waiting for their answers, by number
    lastSettled,    \* the request that settled last and its answer
    lastToast,      \* the toast raised last
    searchResults,  \* the response the results tab displays
    activeTab,      \* the tab of the page that is shown
    files,          \* the selected files of the upload form, in order
    uploading,      \* the uploading flag of the upload form
    uploadProgress, \* the percentage of the progress bar
    timers,         \* the progress timers that are set, by upload attempt
    upload,         \* the upload request in flight and the files it carries
    dropped,        \* the number of files dropped so far
    uploads,        \* the number of upload attempts so far
    online,         \* navigator.onLine
    mounted,        \* the status panel is mounted
    isOnline,       \* the isOnline state of the status panel
    firstIsOnline,  \* isOnline of the first render, read by the effect's checkHealth
    health,         \* the health snapshot of the status panel
    statusLoading,  \* the loading flag of the status panel
    lastUpdated,    \* the time of the last snapshot
    systemHealth,   \* the snapshot the page holds
    checking        \* the number of health requests in flight

serviceVars == <<now, raw, resp, resp2, prevResp>>
linkVars == <<text, links, prevLinks>>
pageVars == <<expandedWebSections, pptTitle>>
consoleVars == <<query, selectedAction, translateTo, loading, sent, pending,
                 lastSettled, lastToast, searchResults, activeTab>>

uploadVars == <<files, uploading, uploadProgress, timers, upload, dropped, uploads>>
statusVars == <<online, mounted, isOnline, firstIsOnline, health, statusLoading,
                lastUpdated, systemHealth, checking>>

vars == <<serviceVars, linkVars, pageVars, consoleVars, uploadVars, statusVars>>

---------------------------------------------------------------------------
(* Bounds of the model. *)

MaxKeys == 2        \* own keys of a generated payload object
MaxResults == 2     \* length of a generated results array
MaxClock == 1       \* clock ticks in a behaviour
MaxLines == 3       \* lines of a generated text
MaxEntries == 4     \* entries of a generated list of single entries
MaxRuns == 2        \* runs of a generated list of runs of entries
MaxName == 3        \* runs of a generated file name
MaxQueries == 2     \* query requests sent in a behaviour
MaxFiles == 2       \* files dropped in a behaviour
MaxUploads == 2     \* upload attempts in a behaviour
MaxChecks == 2      \* health requests in flight at a time

---------------------------------------------------------------------------
(* JavaScript values. *)

JsVal(t, n, s, o, a) == [t |-> t, n |-> n, s |-> s, o |-> o, a |-> a]

Undef == JsVal("undefined", 0, "", <<>>, <<>>)
Null == JsVal("null", 0, "", <<>>, <<>>)
TypeError == JsVal("TypeError", 0, "", <<>>, <<>>)
Bool(b) == JsVal("boolean", IF b THEN 1 ELSE 0, "", <<>>, <<>>)
Num(n) == JsVal("number", n, "", <<>>, <<>>)
Str(s) == JsVal("string", 0, s, <<>>, <<>>)
Obj(f) == JsVal("object", 0, "", f, <<>>)
Arr(q) == JsVal("array", 0, "", <<>>, q)
NoCall == JsVal("no call", 0, "", <<>>, <<>>)

EmptyProps == [k \in {} |-> Undef]

IsNullish(v) == v.t \in {"undefined", "null"}

\* typeof v
TypeOf(v) ==
    CASE v.t = "undefined" -> "undefined"
      [] v.t = "boolean" -> "boolean"
      [] v.t = "number" -> "number"
      [] v.t = "string" -> "string"
      [] OTHER -> "object"

\* ToBoolean: Boolean(v), and the test of v && ... (the numbers of the model
\* are finite, so 0 is the only falsy number)
Truthy(v) ==
    CASE v.t \in {"undefined", "null"} -> FALSE
      [] v.t = "boolean" -> v.n = 1
      [] v.t = "number" -> v.n # 0
      [] v.t = "string" -> v.s # ""
      [] OTHER -> TRUE

IndexKeys == <<"0", "1", "2", "3", "4", "5", "6", "7">>

\* the own enumerable properties that { ...v } copies
OwnProps(v) ==
    CASE v.t = "object" -> v.o
      [] v.t = "array" -> [k \in {IndexKeys[i] : i \in 1..Len(v.a)} |->
                             v.a[CHOOSE i \in 1..Len(v.a) : IndexKeys[i] = k]]
      [] OTHER -> EmptyProps

\* v[k] of a value that is neither undefined nor null (the keys read by the
\* program are names, never indices or "length")
Prop(v, k) ==
    IF v.t = "object" /\ k \in DOMAIN v.o THEN v.o[k] ELSE Undef

\* v?.k
OptGet(v, k) == IF IsNullish(v) THEN Undef ELSE Prop(v, k)

\* v.k
Get(v, k) == IF IsNullish(v) THEN TypeError ELSE Prop(v, k)

\* a ?? b
Coalesce(a, b) == IF IsNullish(a) THEN b ELSE a

\* { ...f, ...g }
Spread(f, g) ==
    [k \in (DOMAIN f) \cup (DOMAIN g) |-> IF k \in DOMAIN g THEN g[k] ELSE f[k]]

\* new Date().toISOString() at instant t: a string that names the instant
ToISOString(t) == JsVal("string", t, "ISO-8601", <<>>, <<>>)

---------------------------------------------------------------------------
(* normalizeQueryResponse, src/services/api.ts. *)

SynthKeys ==
    {"document_name", "best_sentence", "score", "summary", "web_content",
     "refined_insight", "ppt_path", "file_name", "action_type"}

\* a variant of ItemContent that prefers summary to content
ItemContentSummaryFirst(r) ==
    Coalesce(Coalesce(Coalesce(OptGet(r, "summary"), OptGet(r, "content")),
                      OptGet(r, "best_sentence")),
             Str(""))

\* content: r?.content ?? r?.summary ?? r?.best_sentence ?? ''
ItemContent(r) ==
    Coalesce(Coalesce(Coalesce(OptGet(r, "content"), OptGet(r, "summary")),
                      OptGet(r, "best_sentence")),
             Str(""))

\* a variant of SynthDocumentName that prefers source to document_name
SynthDocumentNameSourceFirst(r) ==
    Coalesce(Coalesce(OptGet(r, "source"), OptGet(r, "document_name")),
             OptGet(OptGet(r, "metadata"), "document_name"))

\* document_name: r?.document_name ?? r?.source ?? r?.metadata?.document_name
SynthDocumentName(r) ==
    Coalesce(Coalesce(OptGet(r, "document_name"), OptGet(r, "source")),
             OptGet(OptGet(r, "metadata"), "document_name"))

\* the keys written before the spread
SynthMetadata(r) ==
    [k \in SynthKeys |->
        IF k = "document_name" THEN SynthDocumentName(r) ELSE OptGet(r, k)]

\* a variant of SpreadSource that reads r.metadata without the r?.metadata guard
SpreadSourceUnguarded(r) ==
    LET m == Get(r, "metadata")
    IN  IF m = TypeError THEN TypeError
        ELSE IF TypeOf(m) = "object" THEN m
        ELSE Obj(EmptyProps)

\* (r?.metadata && typeof r.metadata === 'object' ? r.metadata : {})
SpreadSource(r) ==
    IF Truthy(OptGet(r, "metadata"))
    THEN LET m == Get(r, "metadata")
         IN  IF m = TypeError THEN TypeError
             ELSE IF TypeOf(m) = "object" THEN Get(r, "metadata")
             ELSE Obj(EmptyProps)
    ELSE Obj(EmptyProps)

\* a variant of ItemMetadata that spreads the source metadata first
ItemMetadataSpreadFirst(r) ==
    LET src == SpreadSource(r)
    IN  IF src = TypeError THEN TypeError
        ELSE Obj(Spread(OwnProps(src), SynthMetadata(r)))

\* metadata: { document_name: ..., ..., action_type: ..., ...(spread source) }
ItemMetadata(r) ==
    LET src == SpreadSource(r)
    IN  IF src = TypeError THEN TypeError
        ELSE Obj(Spread(SynthMetadata(r), OwnProps(src)))

\* a variant of ItemSimilarity without the typeof tests: r?.similarity ?? r?.score
ItemSimilarityCoalesce(r) == Coalesce(OptGet(r, "similarity"), OptGet(r, "score"))

\* similarity: typeof r?.similarity === 'number' ? r.similarity
\*             : (typeof r?.score === 'number' ? r.score : undefined)
ItemSimilarity(r) ==
    IF TypeOf(OptGet(r, "similarity")) = "number" THEN Get(r, "similarity")
    ELSE IF TypeOf(OptGet(r, "score")) = "number" THEN Get(r, "score")
    ELSE Undef

\* source: r?.source ?? r?.document_name
ItemSource(r) == Coalesce(OptGet(r, "source"), OptGet(r, "document_name"))

\* the callback of raw.results.map
NormalizeItem(r) ==
    LET c == ItemContent(r)
        m == ItemMetadata(r)
        sim == ItemSimilarity(r)
        src == ItemSource(r)
    IN  IF TypeError \in {c, m, sim, src} THEN TypeError
        ELSE Obj([content |-> c, metadata |-> m, similarity |-> sim, source |-> src])

\* a variant of ResultItems that drops the null items before mapping
ResultItemsSkipNull(r) ==
    IF OptGet(r, "results").t = "array"
    THEN LET kept == SelectSeq(Get(r, "results").a, LAMBDA x : ~IsNullish(x))
         IN  Arr([i \in 1..Len(kept) |-> NormalizeItem(kept[i])])
    ELSE Arr(<<>>)

\* Array.isArray(raw?.results) ? raw.results.map(...) : []
ResultItems(r) ==
    IF OptGet(r, "results").t = "array"
    THEN LET rs == Get(r, "results")
         IN  IF rs = TypeError THEN TypeError
             ELSE LET items == [i \in 1..Len(rs.a) |-> NormalizeItem(rs.a[i])]
                  IN  IF \E i \in 1..Len(items) : items[i] = TypeError
                      THEN TypeError ELSE Arr(items)
    ELSE Arr(<<>>)

\* a variant of ResponseAction that prefers action_type to action
ResponseActionTypeFirst(r) ==
    Coalesce(Coalesce(OptGet(r, "action_type"), OptGet(r, "action")), Str("search"))

\* action: raw?.action ?? raw?.action_type ?? 'search'
ResponseAction(r) ==
    Coalesce(Coalesce(OptGet(r, "action"), OptGet(r, "action_type")), Str("search"))

\* a variant of ResponseTimestamp that always stamps the response with the clock
ResponseTimestampClockOnly(r, t) == ToISOString(t)

\* timestamp: raw?.timestamp ?? new Date().toISOString()
ResponseTimestamp(r, t) == Coalesce(OptGet(r, "timestamp"), ToISOString(t))

\* normalizeQueryResponse(raw), called at instant t
normalizeQueryResponse(r, t) ==
    LET items == ResultItems(r)
    IN  IF items = TypeError THEN TypeError
        ELSE Obj([success |-> Bool(Truthy(OptGet(r, "success"))),
                  message |-> Coalesce(OptGet(r, "message"), Str("")),
                  results |-> items,
                  action |-> ResponseAction(r),
                  timestamp |-> ResponseTimestamp(r, t),
                  query |-> Coalesce(OptGet(r, "query"), Str("")),
                  translation |-> OptGet(r, "translation")])

---------------------------------------------------------------------------
(* extractLinksFromWebContent, src/components/ResultsDisplay.tsx.          *)
(*                                                                         *)
(* A text is a sequence of characters.  The characters the regular         *)
(* expressions tell apart are modelled one by one: "#", ":", "*", the      *)
(* space, the carriage return, the line feed, the link glyph U+1F517 and   *)
(* an emoji.  A run of other characters (a word, a phrase, a URL scheme, a *)
(* host) is one element of the sequence, named by its text.                *)

LF == "\n"
CR == "\r"
SP == " "
LinkGlyph == "U+1F517"
ChartEmoji == "U+1F4C8"

\* \s
IsSpace(c) == c \in {SP, CR, LF}

\* what . does not match
IsLineTerminator(c) == c \in {CR, LF}

\* the lower-case form of a run of characters, as the i flag compares them
LowerCase(c) ==
    CASE c = "Most Popular Results" -> "most popular results"
      [] c = "Latest Results" -> "latest results"
      [] c = "LATEST RESULTS" -> "latest results"
      [] c = "HTTP://" -> "http://"
      [] c = "HTTPS://" -> "https://"
      [] c = "News" -> "news"
      [] c = "Example Site" -> "example site"
      [] c = "Other Site" -> "other site"
      [] OTHER -> c

\* the index of the first line feed of s at or after i, Len(s) + 1 if none
RECURSIVE NextLF(_, _)
NextLF(s, i) ==
    IF i > Len(s) THEN Len(s) + 1
    ELSE IF s[i] = LF THEN i
    ELSE NextLF(s, i + 1)

\* text.split(/\r?\n/), from index i on
RECURSIVE SplitFrom(_, _)
SplitFrom(s, i) ==
    LET n == NextLF(s, i)
        e == IF n <= Len(s) /\ n > i /\ s[n - 1] = CR THEN n - 2 ELSE n - 1
        line == SubSeq(s, i, e)
    IN  IF n > Len(s) THEN <<line>> ELSE <<line>> \o SplitFrom(s, n + 1)

SplitLines(s) == SplitFrom(s, 1)

RECURSIVE TrimStart(_)
TrimStart(s) == IF s # <<>> /\ IsSpace(Head(s)) THEN TrimStart(Tail(s)) ELSE s

RECURSIVE TrimEnd(_)
TrimEnd(s) ==
    IF s # <<>> /\ IsSpace(s[Len(s)]) THEN TrimEnd(SubSeq(s, 1, Len(s) - 1)) ELSE s

\* s.trim()
Trim(s) == TrimEnd(TrimStart(s))

\* the number of leading \s characters of s
SpacePrefix(s) == Len(s) - Len(TrimStart(s))

NoMatch == [matched |-> FALSE, group |-> <<>>]
Match(g) == [matched |-> TRUE, group |-> g]

HasLineTerminator(s) == \E i \in 1..Len(s) : IsLineTerminator(s[i])

\* line.match(/^###\s*(.+?):\s*$/) on a trimmed line: after ### the greedy
\* \s* gives back what the group needs to be non-empty, the lazy group runs
\* to the colon that ends the line
HeadingMatch(line) ==
    IF Len(line) >= 5 /\ SubSeq(line, 1, 3) = <<"#", "#", "#">> /\ line[Len(line)] = ":"
    THEN LET body == SubSeq(line, 4, Len(line) - 1)
             k == IF SpacePrefix(body) < Len(body) THEN SpacePrefix(body)
                  ELSE Len(body) - 1
             g == SubSeq(body, k + 1, Len(body))
         IN  IF HasLineTerminator(g) THEN NoMatch ELSE Match(g)
    ELSE NoMatch

\* /Most Popular Results/i.test(heading), /Latest Results/i.test(heading)
Contains(heading, phrase) == \E i \in 1..Len(heading) : LowerCase(heading[i]) = phrase

NoSection == [defined |-> FALSE, name |-> <<>>]
Section(name) == [defined |-> TRUE, name |-> name]

\* the section a heading sets
\* a variant of HeadingSection whose label tests mind the letter case
HeadingSectionCaseSensitive(heading) ==
    IF \E i \in 1..Len(heading) : heading[i] = "Most Popular Results"
    THEN Section(<<"Most Popular Results">>)
    ELSE IF \E i \in 1..Len(heading) : heading[i] = "Latest Results"
    THEN Section(<<"Latest Results">>)
    ELSE Section(heading)

HeadingSection(heading) ==
    IF Contains(heading, "most popular results") THEN Section(<<"Most Popular Results">>)
    ELSE IF Contains(heading, "latest results") THEN Section(<<"Latest Results">>)
    ELSE Section(heading)

\* /^\s*U+1F517\s*\*\*/.test(line): the index after the two asterisks, 0 if
\* the line does not start a bullet
BulletStart(line) ==
    LET s == TrimStart(line)
        lead == Len(line) - Len(s)
    IN  IF s # <<>> /\ Head(s) = LinkGlyph
        THEN LET rest == Tail(s)
                 w == SpacePrefix(rest)
             IN  IF Len(rest) >= w + 2 /\ rest[w + 1] = "*" /\ rest[w + 2] = "*"
                 THEN lead + 1 + w + 3
                 ELSE 0
        ELSE 0

\* the least q > p with line[q] = line[q + 1] = "*", 0 if none or if a line
\* terminator comes first
RECURSIVE ClosingStars(_, _)
ClosingStars(line, q) ==
    IF q + 1 > Len(line) THEN 0
    ELSE IF IsLineTerminator(line[q - 1]) THEN 0
    ELSE IF line[q] = "*" /\ line[q + 1] = "*" THEN q
    ELSE ClosingStars(line, q + 1)

\* line.match(/^\s*U+1F517\s*\*\*(.+?)\*\*/)
TitleMatch(line) ==
    LET p == BulletStart(line)
    IN  IF p = 0 \/ p > Len(line) THEN NoMatch
        ELSE LET q == ClosingStars(line, p + 1)
             IN  IF q = 0 THEN NoMatch ELSE Match(SubSeq(line, p, q - 1))

\* /^https?:\/\//i.test(next)
IsUrl(line) == line # <<>> /\ LowerCase(Head(line)) \in {"http://", "https://"}

\* /^###\s*/.test(next)
HeadingStart(line) == Len(line) >= 3 /\ SubSeq(line, 1, 3) = <<"#", "#", "#">>

\* a variant of FindUrl that looks at line j only
FindUrlNextLine(lines, j) ==
    IF j > Len(lines) THEN <<>>
    ELSE LET next == Trim(lines[j])
         IN  IF IsUrl(next) THEN next ELSE <<>>

\* a variant of FindUrl that reads on past bullets and headings
RECURSIVE FindUrlThrough(_, _)
FindUrlThrough(lines, j) ==
    IF j > Len(lines) THEN <<>>
    ELSE LET next == Trim(lines[j])
         IN  IF IsUrl(next) THEN next ELSE FindUrlThrough(lines, j + 1)

\* a variant of FindUrl that reads on past bullets, stopping at headings
RECURSIVE FindUrlPastBullets(_, _)
FindUrlPastBullets(lines, j) ==
    IF j > Len(lines) THEN <<>>
    ELSE LET next == Trim(lines[j])
         IN  IF next = <<>> THEN FindUrlPastBullets(lines, j + 1)
             ELSE IF IsUrl(next) THEN next
             ELSE IF HeadingStart(next) THEN <<>>
             ELSE FindUrlPastBullets(lines, j + 1)

\* the inner loop: from line j on, the first non-empty trimmed line that is
\* a URL, '' when a bullet or a heading comes first or the lines run out
RECURSIVE FindUrl(_, _)
FindUrl(lines, j) ==
    IF j > Len(lines) THEN <<>>
    ELSE LET next == Trim(lines[j])
         IN  IF next = <<>> THEN FindUrl(lines, j + 1)
             ELSE IF IsUrl(next) THEN next
             ELSE IF BulletStart(next) # 0 \/ HeadingStart(next) THEN <<>>
             ELSE FindUrl(lines, j + 1)

\* a variant of PushIfFound that puts the entry in front
PushFront(items, title, url, section) ==
    IF title # <<>> /\ url # <<>>
    THEN <<[title |-> title, url |-> url, section |-> section]>> \o items
    ELSE items

\* a variant of PushIfFound that tests the title only
PushIfTitle(items, title, url, section) ==
    IF title # <<>>
    THEN Append(items, [title |-> title, url |-> url, section |-> section])
    ELSE items

\* if (title && url) items.push({ title, url, section: currentSection })
PushIfFound(items, title, url, section) ==
    IF title # <<>> /\ url # <<>>
    THEN Append(items, [title |-> title, url |-> url, section |-> section])
    ELSE items

\* a variant of BulletTitle that keeps the captured text as it is
BulletTitleUntrimmed(titleMatch) == titleMatch.group

\* const title = titleMatch[1].trim()
BulletTitle(titleMatch) == Trim(titleMatch.group)

\* the outer loop from line i on, with the current section and the items so far
RECURSIVE ExtractFrom(_, _, _, _)
ExtractFrom(lines, i, currentSection, items) ==
    IF i > Len(lines) THEN items
    ELSE LET line == Trim(lines[i])
             headingMatch == HeadingMatch(line)
             titleMatch == TitleMatch(line)
         IN  IF headingMatch.matched
             THEN ExtractFrom(lines, i + 1, HeadingSection(headingMatch.group), items)
             ELSE IF titleMatch.matched
             THEN ExtractFrom(lines, i + 1, currentSection,
                              PushIfFound(items, BulletTitle(titleMatch),
                                          FindUrl(lines, i + 1), currentSection))
             ELSE ExtractFrom(lines, i + 1, currentSection, items)

extractLinksFromWebContent(t) == ExtractFrom(SplitLines(t), 1, NoSection, <<>>)

---------------------------------------------------------------------------
(* The grouping of the entries by section in the render of an explore      *)
(* result, src/src/components/ResultsDisplay.tsx. A label is the sequence  *)
(* of runs of a section name.                                              *)

Other == <<"Other">>

\* f with own key k set to v
WithKey(f, k, v) == [j \in (DOMAIN f) \cup {k} |-> IF j = k THEN v ELSE f[j]]

\* items.slice(0, 5), items.length > 5
CollapsedCount == 5

\* a variant of PresetSections with no preset label
NoPresetSections == <<>>

\* const sectionOrder = ['Most Popular Results', 'Latest Results']
PresetSections == << <<"Most Popular Results">>, <<"Latest Results">> >>

\* the keys every object literal inherits: groups[key] is not undefined for
\* them before any entry was stored, and it is no array
ObjectPrototypeKeys == { <<"constructor">>, <<"toString">>, <<"__proto__">> }

\* const groups = {}
NoGroups == [key \in {} |-> <<>>]

\* const key = it.section || 'Other'
GroupKey(it) ==
    IF it.section.defined /\ it.section.name # <<>> THEN it.section.name ELSE Other

\* the members of a sequence
Members(q) == {q[i] : i \in 1..Len(q)}

\* the loop over the links from entry k on; groups[key].push throws a
\* TypeError when groups[key] is an inherited property
RECURSIVE GroupFrom(_, _, _, _)
GroupFrom(items, k, sectionOrder, groups) ==
    IF k > Len(items)
    THEN [threw |-> FALSE,
          sectionOrder |-> IF Other \in DOMAIN groups
                           THEN Append(sectionOrder, Other) ELSE sectionOrder,
          groups |-> groups]
    ELSE LET key == GroupKey(items[k])
         IN  IF key \notin DOMAIN groups /\ key \in ObjectPrototypeKeys
             THEN [threw |-> TRUE, sectionOrder |-> sectionOrder, groups |-> groups]
             ELSE LET own == IF key \in DOMAIN groups THEN groups[key] ELSE <<>>
                  IN  GroupFrom(items, k + 1,
                                IF key \notin Members(sectionOrder) /\ key # Other
                                THEN Append(sectionOrder, key) ELSE sectionOrder,
                                WithKey(groups, key, Append(own, items[k])))

\* the grouping of the links of one result
GroupLinks(items) == GroupFrom(items, 1, PresetSections, NoGroups)

\* sectionOrder.filter(sec => groups[sec]?.length)
ShownSections(g) ==
    SelectSeq(g.sectionOrder,
              LAMBDA sec : sec \in DOMAIN g.groups /\ Len(g.groups[sec]) > 0)

\* a variant of Visible that never shows more than the first entries
VisibleCollapsed(items, isOpen) ==
    SubSeq(items, 1, IF Len(items) < CollapsedCount THEN Len(items) ELSE CollapsedCount)

\* const visible = isOpen ? items : items.slice(0, 5)
Visible(items, isOpen) ==
    IF isOpen THEN items
    ELSE SubSeq(items, 1, IF Len(items) < CollapsedCount THEN Len(items) ELSE CollapsedCount)

\* items.length > 5 && <Button ...>: the section has a toggle
HasToggle(items) == Len(items) > CollapsedCount

---------------------------------------------------------------------------
(* The title of a presentation result, src/src/components/ResultsDisplay.tsx *)
(* lines 395-402. A file name is a string given run by run: a path         *)
(* separator, an extension, a timestamp suffix or a word is one run.       *)

\* the string of the runs q
Chars(q) == IF q = <<>> THEN Str("") ELSE JsVal("string", 0, "runs", <<>>, q)

\* the runs of a string
CharsOf(v) == IF v.a # <<>> THEN v.a ELSE IF v.s = "" THEN <<>> ELSE <<v.s>>

\* /[/\\]/
IsSeparator(c) == c \in {"/", "\\"}

\* /\.pptx?$/i
IsPptExtension(c) == c \in {".ppt", ".pptx", ".PPT", ".PPTX"}

\* /_\d{8}_\d{6}$/
IsTimestamp(c) == c \in {"_20240101_120000"}

\* parts[parts.length - 1] of fileName.split(/[/\\]/)
RECURSIVE LastPart(_)
LastPart(q) ==
    IF q = <<>> \/ IsSeparator(q[Len(q)]) THEN <<>>
    ELSE Append(LastPart(SubSeq(q, 1, Len(q) - 1)), q[Len(q)])

\* .replace(/\.pptx?$/i, '')
StripExtension(q) ==
    IF q # <<>> /\ IsPptExtension(q[Len(q)]) THEN SubSeq(q, 1, Len(q) - 1) ELSE q

\* .replace(/_\d{8}_\d{6}$/, '')
StripTimestamp(q) ==
    IF q # <<>> /\ IsTimestamp(q[Len(q)]) THEN SubSeq(q, 1, Len(q) - 1) ELSE q

\* a variant of PptFileName that reads ppt_path first
PptFileNamePathFirst(result) ==
    LET metadata == Get(result, "metadata")
    IN  IF Truthy(OptGet(metadata, "ppt_path"))
        THEN OptGet(metadata, "ppt_path")
        ELSE OptGet(metadata, "file_name")

\* const fileName = result.metadata?.file_name || result.metadata?.ppt_path
PptFileName(result) ==
    LET metadata == Get(result, "metadata")
    IN  IF Truthy(OptGet(metadata, "file_name"))
        THEN OptGet(metadata, "file_name")
        ELSE OptGet(metadata, "ppt_path")

\* what the render of the title yields: the title, or a TypeError when the
\* name is neither falsy nor a string (fileName.split is not a function)
PptTitle(result) ==
    LET fileName == PptFileName(result)
    IN  IF ~Truthy(fileName)
        THEN [rendered |-> TRUE, threw |-> FALSE, title |-> <<"Generated Presentation">>]
        ELSE IF TypeOf(fileName) # "string"
        THEN [rendered |-> TRUE, threw |-> TRUE, title |-> <<>>]
        ELSE LET parts == LastPart(CharsOf(fileName))
                 fullName == IF parts # <<>> THEN parts ELSE CharsOf(fileName)
             IN  [rendered |-> TRUE, threw |-> FALSE,
                  title |-> StripTimestamp(StripExtension(fullName))]

---------------------------------------------------------------------------
(* The query console, src/src/components/SearchInterface.tsx, and the page *)
(* that shows its results, src/unnamed/part_000.                           *)

\* the actions of the console
Actions == {"search", "explore", "think", "ppt"}

\* supportsTranslation of the action
SupportsTranslation(action) == action \in {"search", "think"}

\* the languages of the language select
Languages == {"en", "hi"}

\* the tabs of the page: the console, the results, and one of the others
Tabs == {"search", "documents", "results"}

\* threshold: 0.35, in hundredths
Threshold == 35

\* the request handleSearch sends
QueryRequest(q, action, language) ==
    [query |-> Trim(q), action |-> action, threshold |-> Threshold,
     translate_to |-> language]

\* what the code after the await still reads of the render that sent the
\* request: translateTo
Awaiting(request) == [translateTo |-> request.translate_to]

\* the toasts of handleSearch
QueryRequired == [title |-> "Query required", variant |-> "destructive", translated |-> FALSE]
QueryCompleted(translated) ==
    [title |-> "Query completed", variant |-> "default", translated |-> translated]
QueryFailed == [title |-> "Query failed", variant |-> "destructive", translated |-> FALSE]
SearchError == [title |-> "Search error", variant |-> "destructive", translated |-> FALSE]

\* a variant of handleSearchResults that keeps the results already shown
KeepSearchResults(shown, id, response) ==
    IF shown.from = 0 THEN [from |-> id, response |-> response] ELSE shown

\* handleSearchResults: setSearchResults(results)
handleSearchResults(shown, id, response) == [from |-> id, response |-> response]

\* the toast after the await: response is what apiService.query returned,
\* a TypeError when the normalizer threw
ToastOf(response, awaiting) ==
    IF response = TypeError THEN SearchError
    ELSE IF Truthy(Prop(response, "success"))
    THEN QueryCompleted(Truthy(Prop(response, "translation"))
                            /\ awaiting.translateTo # "en")
    ELSE QueryFailed

\* the request was answered with an error status or not at all
Rejected == JsVal("rejected", 0, "", <<>>, <<>>)

---------------------------------------------------------------------------
(* The upload form, FileUpload in src/src/components/SearchInterface.tsx.  *)

\* the step and the cap of the progress timer: prev >= 90, prev + 10
ProgressStep == 10
ProgressCap == 90

\* setUploadProgress(100)
ProgressDone == 100

\* the toasts of uploadFiles
NoFilesSelected == [title |-> "No files selected", variant |-> "destructive", translated |-> FALSE]
UploadSuccessful == [title |-> "Upload successful", variant |-> "default", translated |-> FALSE]
UploadFailed == [title |-> "Upload failed", variant |-> "destructive", translated |-> FALSE]
UploadError == [title |-> "Upload error", variant |-> "destructive", translated |-> FALSE]

\* the updater of the progress timer: prev >= 90 ? 90 : prev + 10
NextProgress(prev) == IF prev >= ProgressCap THEN ProgressCap ELSE prev + ProgressStep

\* the updater clears its own timer when prev >= 90
ClearsItself(prev) == prev >= ProgressCap

\* the state an update queue leaves: the updates of one continuation are
\* applied in order and committed together
RECURSIVE Committed(_, _)
Committed(prev, updates) ==
    IF updates = <<>> THEN prev ELSE Committed(Head(updates), Tail(updates))

\* response.success of a body that is null or undefined throws
ReadThrows(response) == response.t \in {"null", "undefined"}

\* the toast after the await: answer is what apiService.uploadFiles gave
UploadToastOf(answer) ==
    IF answer = Rejected \/ ReadThrows(answer) THEN UploadError
    ELSE IF Truthy(Prop(answer, "success")) THEN UploadSuccessful
    ELSE UploadFailed

\* the calls of setUploadProgress after the await, in order: 100 when the
\* request resolved, then 0 in the finally block
ProgressUpdates(answer) ==
    IF answer = Rejected THEN <<0>> ELSE <<ProgressDone, 0>>

\* clearInterval(progressInterval) comes after the await, inside the try
\* block: it is skipped when the request is rejected
TimersAfter(set, id, answer) == IF answer = Rejected THEN set ELSE set \ {id}

\* a variant of FilesAfter that clears the list however the upload ended
FilesAfterCleared(selected, carried, notice) == <<>>

\* setFiles([]) on success
FilesAfter(selected, carried, notice) ==
    IF notice = UploadSuccessful THEN <<>> ELSE selected

\* handleUploadComplete: if (response.success) setActiveTab('documents')
TabAfterUpload(tab, notice) == IF notice = UploadSuccessful THEN "documents" ELSE tab

\* response.data of an upload: a success, a failure the backend reports,
\* and a null body
UploadPayloads ==
    {Obj([success |-> Bool(TRUE), message |-> Str("Uploaded")]),
     Obj([success |-> Bool(FALSE), message |-> Str("No valid files")]),
     Null}

---------------------------------------------------------------------------
(* The status panel, src/src/components/StatusIndicator.tsx.               *)

\* the toast of checkHealth
ConnectionIssue == [title |-> "Connection issue", variant |-> "destructive", translated |-> FALSE]

\* response.data of GET /health: two snapshots and a null body
HealthPayloads ==
    {Obj([status |-> Str("healthy"), document_count |-> Num(1)]),
     Obj([status |-> Str("partial"), document_count |-> Num(0)]),
     Null}

\* if (!isOnline) return: checkHealth sends a request when the isOnline of
\* its render is true
SendsCheck(closureIsOnline) == closureIsOnline

---------------------------------------------------------------------------
(* The payloads the backend may answer with. *)

\* the keys normalizeQueryResponse reads of a result item
ItemKeys ==
    {"content", "summary", "best_sentence", "metadata", "score", "similarity",
     "source", "document_name", "web_content", "refined_insight", "ppt_path",
     "file_name", "action_type"}

\* nested metadata: absent-like values, a non-object, an array, and objects
\* with one own key (a synthesized key or another one)
MetadataValues ==
    {Null, Str("metadata"), Obj(EmptyProps), Arr(<<Str("first")>>)}
    \cup {Obj(WithKey(EmptyProps, k, v)) :
            k \in SynthKeys \cup {"page"}, v \in {Null, Str("nested")}}

\* the values a result item's field k may hold when it is present: null, a
\* value named after the field, and for the numeric fields a number (in tenths)
ItemFieldValues ==
    [k \in ItemKeys |->
    CASE k = "metadata" -> MetadataValues
      [] k = "similarity" -> {Null, Num(5), Str(k)}
      [] k = "score" -> {Null, Num(9), Str(k)}
      [] k = "content" -> {Null, Str(""), Str(k)}
      [] OTHER -> {Null, Str(k)}]

\* the keys of the response envelope
EnvelopeKeys ==
    {"success", "message", "action", "action_type", "timestamp", "query", "translation"}

EnvelopeFieldValues ==
    [k \in EnvelopeKeys |->
    CASE k = "success" -> {Bool(TRUE), Bool(FALSE), Str("false")}
      [] k = "action" -> {Null, Str("explore"), Str("summarize")}
      [] k = "action_type" -> {Null, Str("ppt"), Num(3)}
      [] k = "translation" ->
            {Null, Obj([target_language |-> Str("hi"), translated |-> Bool(TRUE)])}
      [] OTHER -> {Null, Str(k)}]

\* the objects with own keys S, each key k holding one of values[k]
RECURSIVE ObjectsOver(_, _)
ObjectsOver(S, values) ==
    IF S = {} THEN {EmptyProps}
    ELSE LET k == CHOOSE k \in S : TRUE
         IN  {WithKey(f, k, v) : f \in ObjectsOver(S \ {k}, values), v \in values[k]}

KeySets(K, n) == {S \in SUBSET K : Cardinality(S) <= n}

\* result items: null, primitives, and objects of at most n own keys
Items(n) ==
    {Null, Str("item"), Num(7)}
    \cup {Obj(f) : f \in UNION {ObjectsOver(S, ItemFieldValues) : S \in KeySets(ItemKeys, n)}}

\* the items of the longer arrays
FewItems ==
    {Null, Str("item"), Obj([content |-> Str("content")]),
     Obj([summary |-> Str("summary"), score |-> Num(9)])}

RECURSIVE SeqsUpTo(_, _)
SeqsUpTo(S, n) ==
    IF n = 0 THEN {<<>>}
    ELSE LET shorter == SeqsUpTo(S, n - 1)
         IN  shorter \cup {Append(q, x) : q \in {p \in shorter : Len(p) = n - 1}, x \in S}

\* response.data: a non-object, an envelope of at most n own keys with
\* results absent or not an array, a results array of at most m of FewItems,
\* or a results array of one item of Items(n)
Payloads(n, m) ==
    {Undef, Null, Str("Internal Server Error"), Num(0), Arr(<<Null>>)}
    \cup {Obj(f) : f \in UNION {ObjectsOver(S, EnvelopeFieldValues) :
                                   S \in KeySets(EnvelopeKeys, n)}}
    \cup {Obj(WithKey(f, "results", v)) :
            f \in UNION {ObjectsOver(S, EnvelopeFieldValues) :
                           S \in {T \in KeySets(EnvelopeKeys, n) : Cardinality(T) < n}},
            v \in {Null, Str("results"), Obj([length |-> Num(1)])}}
    \cup {Obj([results |-> Arr(q)]) : q \in SeqsUpTo(FewItems, m)}
    \cup {Obj([results |-> Arr(<<r>>)]) : r \in Items(n)}

\* the lines a generated web_content text is made of
Lines ==
    { <<>>,
      <<"#", "#", "#", SP, ChartEmoji, SP, "Most Popular Results", ":">>,
      <<"#", "#", "#", "LATEST RESULTS", ":", CR>>,
      <<"#", "#", "#", SP, "News", ":">>,
      <<"#", "#", "#", SP, "News">>,
      <<LinkGlyph, SP, "*", "*", "Example Site", "*", "*">>,
      <<LinkGlyph, "*", "*", "*", SP, "Other Site", "*", "*", "*", CR>>,
      <<LinkGlyph, "*", "*", SP, "*", "*">>,
      <<"https://", "example.com">>,
      <<SP, "HTTP://", "example.org", CR>>,
      <<"Example Site">> }

\* the lines of q joined by line feeds
RECURSIVE JoinLines(_)
JoinLines(q) ==
    IF q = <<>> THEN <<>>
    ELSE IF Len(q) = 1 THEN q[1]
    ELSE q[1] \o <<LF>> \o JoinLines(Tail(q))

\* the texts of at most n lines
Texts(n) == {JoinLines(q) : q \in SeqsUpTo(Lines, n)}

\* the lines of a well-formed listing: headings, bullets and URLs
ListingLines ==
    { <<"#", "#", "#", SP, ChartEmoji, SP, "Most Popular Results", ":">>,
      <<"#", "#", "#", "LATEST RESULTS", ":", CR>>,
      <<"#", "#", "#", SP, "News", ":">>,
      <<LinkGlyph, SP, "*", "*", "Example Site", "*", "*">>,
      <<LinkGlyph, "*", "*", "*", SP, "Other Site", "*", "*", "*", CR>>,
      <<"https://", "example.com">>,
      <<SP, "HTTP://", "example.org", CR>> }

\* the listings of n lines
Listings(n) == {JoinLines(q) : q \in [1..n -> ListingLines]}

\* the sections an entry may carry
EntrySections ==
    {NoSection} \cup {Section(<<name>>) :
                        name \in {"Most Popular Results", "Latest Results",
                                  "News", "constructor"}}

\* a single entry of any section
Singles == EntrySections \X {1}

\* a run of entries of one section: one entry, or one more than a collapsed
\* section shows
Runs == (EntrySections \ {Section(<<"constructor">>)}) \X {1, CollapsedCount + 1}

\* k times the run x
Repeat(x, k) == [i \in 1..k |-> x]

\* entry number k of a list
Entry(k, section) ==
    [title |-> <<"Site">>,
     url |-> <<"https://", "example.com", "/">> \o Repeat("x", k),
     section |-> section]

\* the entries of the runs q, numbered from k + 1 on
RECURSIVE EntriesOfRuns(_, _)
EntriesOfRuns(q, k) ==
    IF q = <<>> THEN <<>>
    ELSE [i \in 1..q[1][2] |-> Entry(k + i, q[1][1])]
             \o EntriesOfRuns(Tail(q), k + q[1][2])

\* the entry lists of at most n single entries, and those of at most m runs
EntryLists(n, m) ==
    {EntriesOfRuns(q, 0) : q \in SeqsUpTo(Singles, n)}
        \cup {EntriesOfRuns(q, 0) : q \in SeqsUpTo(Runs, m)}

\* the entry lists of one run
LaterEntryLists == {EntriesOfRuns(<<r>>, 0) : r \in Runs}

\* the runs of a generated file name
NameRuns == {"deck", ".pptx", ".PPT", "_20240101_120000", "_2024_12", "/"}

\* the folders a generated path begins with
Folders == {<<>>, <<"out", "/">>, <<"C:", "\\", "out", "\\">>}

\* the file names and paths: a folder, then at most n runs
Paths(n) == {folder \o q : folder \in Folders, q \in SeqsUpTo(NameRuns, n)}

\* the items of a presentation response: a path in one of the four places a
\* payload may carry it, both names at once, or a name that is no string
PptItems(n) ==
    {Obj(WithKey(EmptyProps, k, Chars(p))) : k \in {"file_name", "ppt_path"}, p \in Paths(n)}
    \cup {Obj([metadata |-> Obj(WithKey(EmptyProps, k, Chars(p)))]) :
            k \in {"file_name", "ppt_path"}, p \in Paths(n)}
    \cup {Obj([file_name |-> f, ppt_path |-> p]) :
            f \in {Null, Str(""), Num(7), Chars(<<"talk", ".ppt">>)},
            p \in {Null, Chars(<<"out", "/", "deck", ".pptx">>)}}
    \cup {Obj([content |-> Str("content")])}

\* response.data of a presentation query
PptPayloads(n) ==
    {Obj([success |-> Bool(TRUE), action |-> Str("ppt"), results |-> Arr(<<r>>)]) :
        r \in PptItems(n)}

\* the texts of the query box: empty, and a query with white space around
QueryTexts == {<<>>, <<"cats", SP>>}

\* response.data of a query: a success with or without a translation, a
\* failure the backend reports, a payload with results and no success
\* field, and a body that is no object
QueryPayloads ==
    {Obj([success |-> Bool(TRUE), message |-> Str("Found 1 result"),
          results |-> Arr(<<Obj([content |-> Str("content")])>>)]),
     Obj([success |-> Bool(TRUE), message |-> Str("Found 1 result"),
          results |-> Arr(<<Obj([content |-> Str("content")])>>),
          translation |-> Obj([target_language |-> Str("hi"), translated |-> Bool(TRUE)])]),
     Obj([success |-> Bool(FALSE), message |-> Str("No documents")]),
     Obj([results |-> Arr(<<Obj([content |-> Str("content")])>>)]),
     Str("Internal Server Error")}

---------------------------------------------------------------------------
(* The normalizer applied to one payload: api.post resolves with raw, the  *)
(* service method returns normalizeQueryResponse(raw).                     *)

NoText == <<>>

\* no render of a presentation result yet
NoTitle == [rendered |-> FALSE, threw |-> FALSE, title |-> <<>>]

\* no toast yet
NoToast == [title |-> "", variant |-> "", translated |-> FALSE]

\* no response displayed: useState<QueryResponse | null>(null)
NoResults == [from |-> 0, response |-> Null]

\* a function with no argument
Nothing == [id \in {} |-> Null]

\* no request has settled
NoneSettled == [id |-> 0, answer |-> Undef]

\* no upload request in flight
NoUpload == [id |-> 0, files |-> <<>>]

\* the page as it is mounted: the initial values of the useState calls; the
\* status panel is mounted when its tab is opened
InitPage ==
    /\ expandedWebSections = {}
    /\ pptTitle = NoTitle
    /\ query = <<>>
    /\ selectedAction = "search"
    /\ translateTo = "en"
    /\ loading = FALSE
    /\ sent = 0
    /\ pending = Nothing
    /\ lastSettled = NoneSettled
    /\ lastToast = NoToast
    /\ searchResults = NoResults
    /\ activeTab = "search"
    /\ files = <<>>
    /\ uploading = FALSE
    /\ uploadProgress = 0
    /\ timers = {}
    /\ upload = NoUpload
    /\ dropped = 0
    /\ uploads = 0
    /\ mounted = FALSE
    /\ isOnline = FALSE
    /\ firstIsOnline = FALSE
    /\ health = Null
    /\ statusLoading = FALSE
    /\ lastUpdated = Null
    /\ systemHealth = Null
    /\ checking = 0
NotExtracted == [called |-> FALSE, items |-> <<>>]
Extracted(items) == [called |-> TRUE, items |-> items]

InitNormalize ==
    /\ now = 0
    /\ raw \in Payloads(MaxKeys, MaxResults)
    /\ resp = NoCall
    /\ resp2 = NoCall
    /\ prevResp = NoCall
    /\ text = NoText
    /\ links = NotExtracted
    /\ prevLinks = NotExtracted
    /\ InitPage
    /\ online = TRUE

\* time passes
Tick ==
    /\ now < MaxClock
    /\ now' = now + 1
    /\ UNCHANGED <<raw, resp, resp2, prevResp, text, links, prevLinks>>
    /\ UNCHANGED <<pageVars, consoleVars, uploadVars, statusVars>>

\* return normalizeQueryResponse(response.data)
Normalize ==
    /\ resp = NoCall
    /\ resp' = normalizeQueryResponse(raw, now)
    /\ UNCHANGED <<now, raw, resp2, prevResp, text, links, prevLinks>>
    /\ UNCHANGED <<pageVars, consoleVars, uploadVars, statusVars>>

\* the normalized response handed to the normalizer as a payload
Renormalize ==
    /\ resp # NoCall
    /\ resp2 = NoCall
    /\ resp2' = normalizeQueryResponse(resp, now)
    /\ UNCHANGED <<now, raw, resp, prevResp, text, links, prevLinks>>
    /\ UNCHANGED <<pageVars, consoleVars, uploadVars, statusVars>>

NextNormalize == Tick \/ Normalize \/ Renormalize

SpecNormalize == InitNormalize /\ [][NextNormalize]_vars

---------------------------------------------------------------------------
(* The extractor applied to one text: a render of an explore result calls  *)
(* extractLinksFromWebContent(result.metadata.web_content).                *)

InitLinks ==
    /\ now = 0
    /\ raw = Undef
    /\ resp = NoCall
    /\ resp2 = NoCall
    /\ prevResp = NoCall
    /\ text \in Texts(MaxLines) \cup Listings(MaxLines + 1)
    /\ links = NotExtracted
    /\ prevLinks = NotExtracted
    /\ InitPage
    /\ online = TRUE

\* const links = extractLinksFromWebContent(result.metadata.web_content)
ExtractLinks ==
    /\ ~links.called
    /\ links' = Extracted(extractLinksFromWebContent(text))
    /\ UNCHANGED <<now, raw, resp, resp2, prevResp, text, prevLinks>>
    /\ UNCHANGED <<pageVars, consoleVars, uploadVars, statusVars>>

NextLinks == ExtractLinks

SpecLinks == InitLinks /\ [][NextLinks]_vars

---------------------------------------------------------------------------
(* Both functions called twice on the same input, as by two requests that  *)
(* resolve with equal payloads and two renders of the same result, while   *)
(* the clock advances.                                                     *)

\* payloads with and without the fields the envelope defaults
CallPayloads ==
    {Undef, Null}
    \cup {Obj(f) : f \in UNION {ObjectsOver(S, EnvelopeFieldValues) :
                                   S \in KeySets({"timestamp", "query", "action"}, MaxKeys)}}
    \cup {Obj([results |-> Arr(<<r>>)]) : r \in FewItems}

CallTexts ==
    {JoinLines(q) : q \in
        { <<>>,
          << <<LinkGlyph, SP, "*", "*", "Example Site", "*", "*">> >>,
          << <<LinkGlyph, SP, "*", "*", "Example Site", "*", "*">>,
             <<"https://", "example.com">> >>,
          << <<"#", "#", "#", SP, "News", ":">>,
             <<LinkGlyph, SP, "*", "*", "Example Site", "*", "*">>,
             <<SP, "HTTP://", "example.org", CR>> >> }}

InitCalls ==
    /\ now = 0
    /\ raw \in CallPayloads
    /\ resp = NoCall
    /\ resp2 = NoCall
    /\ prevResp = NoCall
    /\ text \in CallTexts
    /\ links = NotExtracted
    /\ prevLinks = NotExtracted
    /\ InitPage
    /\ online = TRUE

\* a second call of normalizeQueryResponse with an equal payload
NormalizeAgain ==
    /\ resp # NoCall
    /\ prevResp = NoCall
    /\ prevResp' = resp
    /\ resp' = normalizeQueryResponse(raw, now)
    /\ UNCHANGED <<now, raw, resp2, text, links, prevLinks>>
    /\ UNCHANGED <<pageVars, consoleVars, uploadVars, statusVars>>

\* a second call of extractLinksFromWebContent with an equal text
ExtractLinksAgain ==
    /\ links.called
    /\ ~prevLinks.called
    /\ prevLinks' = links
    /\ links' = Extracted(extractLinksFromWebContent(text))
    /\ UNCHANGED <<now, raw, resp, resp2, prevResp, text>>
    /\ UNCHANGED <<pageVars, consoleVars, uploadVars, statusVars>>

NextCalls == Tick \/ Normalize \/ NormalizeAgain \/ ExtractLinks \/ ExtractLinksAgain

SpecCalls == InitCalls /\ [][NextCalls]_vars

---------------------------------------------------------------------------
(* The web content block of one explore result on the mounted page: the    *)
(* links are grouped at every render, a toggle expands or collapses one    *)
(* section, and new results may arrive while the page is shown.            *)

\* the grouping of the current render
WebSections == GroupLinks(links.items)

InitGroups ==
    /\ now = 0
    /\ raw = Undef
    /\ resp = NoCall
    /\ resp2 = NoCall
    /\ prevResp = NoCall
    /\ text = NoText
    /\ links \in {Extracted(items) : items \in EntryLists(MaxEntries, MaxRuns)}
    /\ prevLinks = NotExtracted
    /\ InitPage
    /\ online = TRUE

\* the click on 'Show more' or 'Show less' of section sec
ToggleSection(sec) ==
    /\ ~WebSections.threw
    /\ sec \in Members(ShownSections(WebSections))
    /\ HasToggle(WebSections.groups[sec])
    /\ expandedWebSections' =
          IF sec \in expandedWebSections
          THEN expandedWebSections \ {sec}
          ELSE expandedWebSections \cup {sec}
    /\ UNCHANGED <<serviceVars, linkVars, pptTitle, consoleVars,
                   uploadVars, statusVars>>

\* the results prop changes while the page is mounted
ShowResults ==
    /\ ~WebSections.threw
    /\ links' \in {Extracted(items) : items \in LaterEntryLists}
    /\ links' # links
    /\ UNCHANGED <<serviceVars, text, prevLinks, pageVars, consoleVars,
                   uploadVars, statusVars>>

NextGroups ==
    \/ \E sec \in {GroupKey(it) : it \in Members(links.items)} : ToggleSection(sec)
    \/ ShowResults

SpecGroups == InitGroups /\ [][NextGroups]_vars

---------------------------------------------------------------------------
(* The presentation card of one result: the response is normalized, then   *)
(* the render of a ppt response computes the title of its first result.    *)

InitPpt ==
    /\ now = 0
    /\ raw \in PptPayloads(MaxName)
    /\ resp = NoCall
    /\ resp2 = NoCall
    /\ prevResp = NoCall
    /\ text = NoText
    /\ links = NotExtracted
    /\ prevLinks = NotExtracted
    /\ InitPage
    /\ online = TRUE

\* results.action === 'ppt' && ... the title of results.results[0]
RenderPptTitle ==
    /\ resp # NoCall
    /\ Prop(resp, "action") = Str("ppt")
    /\ Prop(resp, "results").a # <<>>
    /\ ~pptTitle.rendered
    /\ pptTitle' = PptTitle(Prop(resp, "results").a[1])
    /\ UNCHANGED <<serviceVars, linkVars, expandedWebSections, consoleVars,
                   uploadVars, statusVars>>

NextPpt == Normalize \/ RenderPptTitle

SpecPpt == InitPpt /\ [][NextPpt]_vars

---------------------------------------------------------------------------
(* The query console: the user edits the query, chooses an action and a    *)
(* language, and submits with the button or with Ctrl+Enter; every request *)
(* in flight settles at some time, in any order.                           *)

\* onChange={(e) => setQuery(e.target.value)}
SetQuery(q) ==
    /\ activeTab = "search"
    /\ query # q
    /\ query' = q
    /\ UNCHANGED <<serviceVars, linkVars, pageVars, uploadVars, statusVars,
                   selectedAction, translateTo,
                   loading, sent, pending, lastSettled, lastToast, searchResults,
                   activeTab>>

\* onClick={() => setSelectedAction(action.value)}
SelectAction(action) ==
    /\ activeTab = "search"
    /\ selectedAction # action
    /\ selectedAction' = action
    /\ UNCHANGED <<serviceVars, linkVars, pageVars, uploadVars, statusVars,
                   query, translateTo,
                   loading, sent, pending, lastSettled, lastToast, searchResults,
                   activeTab>>

\* <Select value={translateTo} onValueChange={setTranslateTo}>, rendered
\* when the action supports translation
SelectLanguage(language) ==
    /\ activeTab = "search"
    /\ SupportsTranslation(selectedAction)
    /\ translateTo # language
    /\ translateTo' = language
    /\ UNCHANGED <<serviceVars, linkVars, pageVars, uploadVars, statusVars,
                   query, selectedAction,
                   loading, sent, pending, lastSettled, lastToast, searchResults,
                   activeTab>>

\* handleSearch up to the await
handleSearch ==
    IF Trim(query) = <<>>
    THEN /\ lastToast' = QueryRequired
         /\ UNCHANGED <<loading, sent, pending>>
    ELSE /\ sent < MaxQueries
         /\ loading' = TRUE
         /\ sent' = sent + 1
         /\ pending' = WithKey(pending, sent + 1,
                 Awaiting(QueryRequest(query, selectedAction, translateTo)))
         /\ UNCHANGED lastToast

\* the click on the button, disabled={loading || !query.trim()}
ClickSearch ==
    /\ activeTab = "search"
    /\ ~loading
    /\ Trim(query) # <<>>
    /\ handleSearch
    /\ UNCHANGED <<serviceVars, linkVars, pageVars, uploadVars, statusVars,
                   query, selectedAction,
                   translateTo, lastSettled, searchResults, activeTab>>

\* Ctrl+Enter or Meta+Enter in the query box
CtrlEnter ==
    /\ activeTab = "search"
    /\ handleSearch
    /\ UNCHANGED <<serviceVars, linkVars, pageVars, uploadVars, statusVars,
                   query, selectedAction,
                   translateTo, lastSettled, searchResults, activeTab>>

\* handleSearch after the await: request id was answered with answer
Settle(id, answer) ==
    \* const response = await apiService.query(request)
    \E response \in {IF answer = Rejected THEN TypeError
                      ELSE normalizeQueryResponse(answer, now)} :
    \E notice \in {ToastOf(response, pending[id])} :
        /\ lastToast' = notice
        /\ lastSettled' = [id |-> id, answer |-> answer]
        /\ pending' = [i \in (DOMAIN pending) \ {id} |-> pending[i]]
        /\ IF notice.title = "Query completed"
           THEN /\ searchResults' = handleSearchResults(searchResults, id, response)
                /\ activeTab' = "results"
           ELSE UNCHANGED <<searchResults, activeTab>>
        /\ loading' = FALSE
        /\ UNCHANGED <<serviceVars, linkVars, pageVars, uploadVars, statusVars,
                   query, selectedAction,
                       translateTo, sent>>

\* the request resolves with a payload
Resolve(id) == \E payload \in QueryPayloads : Settle(id, payload)

\* the request fails
Reject(id) == Settle(id, Rejected)

\* <Tabs value={activeTab} onValueChange={setActiveTab}>
SelectTab(tab) ==
    /\ activeTab # tab
    /\ activeTab' = tab
    /\ UNCHANGED <<serviceVars, linkVars, pageVars, uploadVars, statusVars,
                   query, selectedAction,
                   translateTo, loading, sent, pending, lastSettled, lastToast,
                   searchResults>>

InitQuery ==
    /\ now = 0
    /\ raw = Undef
    /\ resp = NoCall
    /\ resp2 = NoCall
    /\ prevResp = NoCall
    /\ text = NoText
    /\ links = NotExtracted
    /\ prevLinks = NotExtracted
    /\ InitPage
    /\ online = TRUE

NextQuery ==
    \/ \E q \in QueryTexts : SetQuery(q)
    \/ \E action \in Actions : SelectAction(action)
    \/ \E language \in Languages : SelectLanguage(language)
    \/ ClickSearch
    \/ CtrlEnter
    \/ \E id \in DOMAIN pending : Resolve(id)
    \/ \E id \in DOMAIN pending : Reject(id)
    \/ \E tab \in Tabs : SelectTab(tab)

SpecQuery == InitQuery /\ [][NextQuery]_vars

---------------------------------------------------------------------------
(* The upload form: the user drops and removes files and starts uploads;   *)
(* the progress timer ticks; the request in flight settles at some time.   *)

\* setFiles(prev => [...prev, ...acceptedFiles]): the drop zone stays
\* active during an upload
onDrop(n) ==
    /\ activeTab = "upload"
    /\ dropped + n <= MaxFiles
    /\ files' = files \o [i \in 1..n |-> dropped + i]
    /\ dropped' = dropped + n
    /\ UNCHANGED <<serviceVars, linkVars, pageVars, consoleVars, statusVars,
                   uploading, uploadProgress, timers, upload, uploads>>

\* setFiles(prev => prev.filter((_, i) => i !== index)); the button is
\* rendered when no upload is going on
removeFile(index) ==
    /\ activeTab = "upload"
    /\ ~uploading
    /\ index \in 1..Len(files)
    /\ files' = [i \in 1..(Len(files) - 1) |-> IF i < index THEN files[i] ELSE files[i + 1]]
    /\ UNCHANGED <<serviceVars, linkVars, pageVars, consoleVars, statusVars,
                   uploading, uploadProgress, timers, upload, dropped, uploads>>

\* uploadFiles up to the await; the button is rendered when files are
\* selected, disabled={uploading}
uploadFiles ==
    /\ activeTab = "upload"
    /\ files # <<>>
    /\ ~uploading
    /\ IF Len(files) = 0
       THEN /\ lastToast' = NoFilesSelected
            /\ UNCHANGED <<uploading, uploadProgress, timers, upload, uploads>>
       ELSE /\ uploads < MaxUploads
            /\ uploading' = TRUE
            /\ uploadProgress' = 0
            /\ timers' = timers \cup {uploads + 1}
            /\ upload' = [id |-> uploads + 1, files |-> files]
            /\ uploads' = uploads + 1
            /\ UNCHANGED lastToast
    /\ UNCHANGED <<serviceVars, linkVars, pageVars, statusVars, query, selectedAction,
                   translateTo, loading, sent, pending, lastSettled, searchResults,
                   activeTab, files, dropped>>

\* the callback of setInterval(..., 200) of attempt t
ProgressTick(t) ==
    /\ t \in timers
    /\ uploadProgress' = NextProgress(uploadProgress)
    /\ timers' = IF ClearsItself(uploadProgress) THEN timers \ {t} ELSE timers
    /\ UNCHANGED <<serviceVars, linkVars, pageVars, consoleVars, statusVars,
                   files, uploading, upload, dropped, uploads>>

\* uploadFiles after the await: the request was answered with answer
UploadSettle(answer) ==
    /\ upload # NoUpload
    /\ \E notice \in {UploadToastOf(answer)} :
          /\ lastToast' = notice
          /\ files' = FilesAfter(files, upload.files, notice)
          /\ activeTab' = TabAfterUpload(activeTab, notice)
    /\ timers' = TimersAfter(timers, upload.id, answer)
    /\ uploadProgress' = Committed(uploadProgress, ProgressUpdates(answer))
    /\ uploading' = FALSE
    /\ upload' = NoUpload
    /\ lastSettled' = [id |-> upload.id, answer |-> answer]
    /\ UNCHANGED <<serviceVars, linkVars, pageVars, statusVars, query, selectedAction,
                   translateTo, loading, sent, pending, searchResults,
                   dropped, uploads>>

\* the upload request resolves with a payload
UploadResolve == \E payload \in UploadPayloads : UploadSettle(payload)

\* the upload request fails
UploadReject == UploadSettle(Rejected)

InitUpload ==
    /\ now = 0
    /\ raw = Undef
    /\ resp = NoCall
    /\ resp2 = NoCall
    /\ prevResp = NoCall
    /\ text = NoText
    /\ links = NotExtracted
    /\ prevLinks = NotExtracted
    /\ InitPage
    /\ online = TRUE

NextUpload ==
    \/ \E n \in 1..2 : onDrop(n)
    \/ \E index \in 1..MaxFiles : removeFile(index)
    \/ uploadFiles
    \/ \E t \in timers : ProgressTick(t)
    \/ UploadResolve
    \/ UploadReject
    \/ \E tab \in {"upload", "documents"} : SelectTab(tab)

SpecUpload == InitUpload /\ [][NextUpload]_vars

---------------------------------------------------------------------------
(* The status panel: it is mounted when its tab is opened; the browser     *)
(* goes offline and online; the auto-refresh timer fires; the user clicks  *)
(* the refresh button; every request in flight settles at some time.       *)

\* checkHealth up to the await, called with the isOnline of its render
checkHealth(closureIsOnline) ==
    IF SendsCheck(closureIsOnline)
    THEN /\ checking < MaxChecks
         /\ checking' = checking + 1
         /\ statusLoading' = TRUE
    ELSE UNCHANGED <<checking, statusLoading>>

\* the first render and its effect: the useState initial values, then
\* checkHealth(), setInterval(checkHealth, 30000) and the two listeners, all
\* with the checkHealth of this render
Mount ==
    /\ ~mounted
    /\ mounted' = TRUE
    /\ activeTab' = "status"
    /\ isOnline' = online
    /\ firstIsOnline' = online
    /\ health' = Null
    /\ lastUpdated' = Null
    /\ IF SendsCheck(online)
       THEN checking' = checking + 1
       ELSE UNCHANGED checking
    /\ statusLoading' = TRUE
    /\ UNCHANGED <<serviceVars, linkVars, pageVars, uploadVars, query, selectedAction,
                   translateTo, loading, sent, pending, lastSettled, lastToast,
                   searchResults, online, systemHealth>>

\* the online event: handleOnline of the first render
GoOnline ==
    /\ ~online
    /\ online' = TRUE
    /\ IF mounted
       THEN /\ isOnline' = TRUE
            /\ checkHealth(firstIsOnline)
       ELSE UNCHANGED <<isOnline, checking, statusLoading>>
    /\ UNCHANGED <<serviceVars, linkVars, pageVars, consoleVars, uploadVars,
                   mounted, firstIsOnline, health, lastUpdated, systemHealth>>

\* the offline event: handleOffline
GoOffline ==
    /\ online
    /\ online' = FALSE
    /\ isOnline' = IF mounted THEN FALSE ELSE isOnline
    /\ UNCHANGED <<serviceVars, linkVars, pageVars, consoleVars, uploadVars,
                   mounted, firstIsOnline, health, statusLoading, lastUpdated,
                   systemHealth, checking>>

\* setInterval(checkHealth, 30000) fires: checkHealth of the first render
AutoRefresh ==
    /\ mounted
    /\ checkHealth(firstIsOnline)
    /\ UNCHANGED <<serviceVars, linkVars, pageVars, consoleVars, uploadVars,
                   online, mounted, isOnline, firstIsOnline, health, lastUpdated,
                   systemHealth>>

\* the refresh button, disabled={loading || !isOnline}: checkHealth of the
\* current render
ClickRefresh ==
    /\ mounted
    /\ activeTab = "status"
    /\ ~statusLoading
    /\ isOnline
    /\ checkHealth(isOnline)
    /\ UNCHANGED <<serviceVars, linkVars, pageVars, consoleVars, uploadVars,
                   online, mounted, isOnline, firstIsOnline, health, lastUpdated,
                   systemHealth>>

\* checkHealth after the await: a request was answered with answer
HealthSettle(answer) ==
    /\ checking > 0
    /\ checking' = checking - 1
    /\ IF answer = Rejected
       THEN /\ lastToast' = ConnectionIssue
            /\ UNCHANGED <<health, lastUpdated, systemHealth>>
       ELSE /\ health' = answer
            /\ lastUpdated' = Num(now)
            \* onStatusChange: setSystemHealth(status), then
            \* status.document_count, which throws for a null body; the
            \* document counter of the page is left out
            /\ systemHealth' = answer
            /\ IF ReadThrows(answer)
               THEN lastToast' = ConnectionIssue
               ELSE UNCHANGED lastToast
    /\ statusLoading' = FALSE
    /\ lastSettled' = [id |-> 0, answer |-> answer]
    /\ UNCHANGED <<serviceVars, linkVars, pageVars, uploadVars, query, selectedAction,
                   translateTo, loading, sent, pending, searchResults,
                   activeTab, online, mounted, isOnline, firstIsOnline>>

\* the health request resolves with a snapshot
HealthResolve == \E payload \in HealthPayloads : HealthSettle(payload)

\* the health request fails
HealthReject == HealthSettle(Rejected)

InitStatus ==
    /\ now = 0
    /\ raw = Undef
    /\ resp = NoCall
    /\ resp2 = NoCall
    /\ prevResp = NoCall
    /\ text = NoText
    /\ links = NotExtracted
    /\ prevLinks = NotExtracted
    /\ InitPage
    /\ online \in BOOLEAN

NextStatus ==
    \/ Tick
    \/ Mount
    \/ GoOnline
    \/ GoOffline
    \/ AutoRefresh
    \/ ClickRefresh
    \/ HealthResolve
    \/ HealthReject
    \/ \E tab \in {"status", "search"} : SelectTab(tab)

SpecStatus == InitStatus /\ [][NextStatus]_vars

---------------------------------------------------------------------------
(* The three panels, one at a time: the panels share no state but the      *)
(* toast and the tab, and a behaviour stays on the panel it starts on: the *)
(* console, the upload form, or the status panel as it was mounted.        *)

\* the status panel after Mount, the browser being online or not
MountedStatus(on) ==
    /\ online = on
    /\ mounted = TRUE
    /\ activeTab = "status"
    /\ isOnline = on
    /\ firstIsOnline = on
    /\ health = Null
    /\ lastUpdated = Null
    /\ systemHealth = Null
    /\ statusLoading = TRUE
    /\ checking = IF SendsCheck(on) THEN 1 ELSE 0

InitPanels ==
    /\ now = 0
    /\ raw = Undef
    /\ resp = NoCall
    /\ resp2 = NoCall
    /\ prevResp = NoCall
    /\ text = NoText
    /\ links = NotExtracted
    /\ prevLinks = NotExtracted
    /\ expandedWebSections = {}
    /\ pptTitle = NoTitle
    /\ query = <<>>
    /\ selectedAction = "search"
    /\ translateTo = "en"
    /\ loading = FALSE
    /\ sent = 0
    /\ pending = Nothing
    /\ lastSettled = NoneSettled
    /\ lastToast = NoToast
    /\ searchResults = NoResults
    /\ files = <<>>
    /\ uploading = FALSE
    /\ uploadProgress = 0
    /\ timers = {}
    /\ upload = NoUpload
    /\ dropped = 0
    /\ uploads = 0
    /\ \/ /\ activeTab \in {"search", "upload"}
          /\ online = TRUE
          /\ mounted = FALSE
          /\ isOnline = FALSE
          /\ firstIsOnline = FALSE
          /\ health = Null
          /\ statusLoading = FALSE
          /\ lastUpdated = Null
          /\ systemHealth = Null
          /\ checking = 0
       \/ \E on \in BOOLEAN : MountedStatus(on)

NextPanels ==
    \/ \E q \in QueryTexts : SetQuery(q)
    \/ \E action \in Actions : SelectAction(action)
    \/ \E language \in Languages : SelectLanguage(language)
    \/ ClickSearch
    \/ CtrlEnter
    \/ \E id \in DOMAIN pending : Resolve(id)
    \/ \E id \in DOMAIN pending : Reject(id)
    \/ \E n \in 1..2 : onDrop(n)
    \/ \E index \in 1..MaxFiles : removeFile(index)
    \/ uploadFiles
    \/ \E t \in timers : ProgressTick(t)
    \/ UploadResolve
    \/ UploadReject
    \/ mounted /\ GoOnline
    \/ mounted /\ GoOffline
    \/ AutoRefresh
    \/ ClickRefresh
    \/ HealthResolve
    \/ HealthReject

SpecPanels == InitPanels /\ [][NextPanels]_vars

---------------------------------------------------------------------------
(* Vocabulary of the properties of the normalizer. *)

\* the normalizer has returned
Returned == resp # NoCall

\* the raw result items, when raw.results is an array
RawItems ==
    IF raw.t = "object" /\ "results" \in DOMAIN raw.o /\ raw.o.results.t = "array"
    THEN raw.o.results.a ELSE <<>>

HasResultsArray ==
    raw.t = "object" /\ "results" \in DOMAIN raw.o /\ raw.o.results.t = "array"

\* the normalized result items
OutItems == resp.o.results.a

\* field k of item r is present: an own key holding neither undefined nor null
Present(r, k) ==
    r.t = "object" /\ k \in DOMAIN r.o /\ r.o[k].t \notin {"undefined", "null"}

\* field k of item r holds a number
Numeric(r, k) == r.t = "object" /\ k \in DOMAIN r.o /\ r.o[k].t = "number"

\* the value of field k of item r: undefined when r has no such own key
Field(r, k) == IF r.t = "object" /\ k \in DOMAIN r.o THEN r.o[k] ELSE Undef

ResponseKeys ==
    {"success", "message", "results", "action", "timestamp", "query", "translation"}
ResultKeys == {"content", "metadata", "similarity", "source"}

\* v is a response of the normalized shape: the seven keys, results an array
\* of four-key items whose metadata is an object
IsNormalizedResponse(v) ==
    /\ v.t = "object"
    /\ DOMAIN v.o = ResponseKeys
    /\ v.o.success.t = "boolean"
    /\ v.o.results.t = "array"
    /\ \A i \in 1..Len(v.o.results.a) :
          LET it == v.o.results.a[i]
          IN  /\ it.t = "object"
              /\ DOMAIN it.o = ResultKeys
              /\ it.o.metadata.t = "object"

---------------------------------------------------------------------------
(* C1: normalizeQueryResponse never raises: for every payload (null,      *)
(* undefined, a non-object, results not an array, items that are null,     *)
(* primitives or objects with missing or wrongly typed fields) it returns  *)
(* a response value.                                                       *)
C1_NeverRaises ==
    /\ Returned => resp # TypeError /\ IsNormalizedResponse(resp)
    /\ resp2 # NoCall => resp2 # TypeError /\ IsNormalizedResponse(resp2)

C1_Witness ==
    /\ Returned
    /\ HasResultsArray
    /\ \E i \in 1..Len(RawItems) : RawItems[i] = Null
    /\ IsNormalizedResponse(resp)

(* C2: when raw.results is absent or not an array the normalized results   *)
(* are the empty sequence; an array of n items is mapped to n items, item  *)
(* i being the normalization of raw item i.                                *)
C2_ResultsShape ==
    Returned =>
        IF HasResultsArray
        THEN /\ resp.o.results.t = "array"
             /\ Len(OutItems) = Len(RawItems)
             /\ \A i \in 1..Len(RawItems) : OutItems[i] = NormalizeItem(RawItems[i])
        ELSE resp.o.results = Arr(<<>>)

C2_Witness ==
    /\ Returned
    /\ Len(RawItems) >= 2
    /\ RawItems[1] # RawItems[2]
    /\ Len(OutItems) = Len(RawItems)

(* C3: the normalized content of an item is the first present one of its   *)
(* content, summary, best_sentence (present: neither undefined nor null),  *)
(* the empty string when none is present, and never undefined.             *)
C3_Content ==
    Returned =>
        \A i \in 1..Len(RawItems) :
            LET r == RawItems[i]
                c == OutItems[i].o.content
            IN  /\ Present(r, "content") => c = r.o.content
                /\ ~Present(r, "content") /\ Present(r, "summary") => c = r.o.summary
                /\ ~Present(r, "content") /\ ~Present(r, "summary")
                     /\ Present(r, "best_sentence") => c = r.o.best_sentence
                /\ ~Present(r, "content") /\ ~Present(r, "summary")
                     /\ ~Present(r, "best_sentence") => c = Str("")
                /\ c.t \notin {"undefined", "null"}

C3_Witness ==
    /\ Returned
    /\ \E i \in 1..Len(RawItems) :
          /\ Field(RawItems[i], "content") = Null
          /\ Present(RawItems[i], "summary")
          /\ OutItems[i].o.content = Str("summary")

(* C4: the normalized similarity of an item is its similarity when that is *)
(* a number, else its score when that is a number, else absent.            *)
C4_Similarity ==
    Returned =>
        \A i \in 1..Len(RawItems) :
            LET r == RawItems[i]
                sim == OutItems[i].o.similarity
            IN  /\ Numeric(r, "similarity") => sim = r.o.similarity
                /\ ~Numeric(r, "similarity") /\ Numeric(r, "score") => sim = r.o.score
                /\ ~Numeric(r, "similarity") /\ ~Numeric(r, "score") => sim = Undef

C4_Witness ==
    /\ Returned
    /\ \E i \in 1..Len(RawItems) :
          /\ Field(RawItems[i], "similarity") = Str("similarity")
          /\ Field(RawItems[i], "score") = Num(9)
          /\ OutItems[i].o.similarity = Num(9)

(* C5: every own key of an item's metadata object keeps its value in the   *)
(* normalized metadata, also when it is a synthesized key and the item's   *)
(* top-level field of that name holds another value.                       *)
C5_SourceMetadataWins ==
    Returned =>
        \A i \in 1..Len(RawItems) :
            LET md == Field(RawItems[i], "metadata")
            IN  md.t = "object" =>
                    \A k \in DOMAIN md.o : OutItems[i].o.metadata.o[k] = md.o[k]

C5_Witness ==
    /\ Returned
    /\ \E i \in 1..Len(RawItems) :
          /\ Field(RawItems[i], "score") = Num(9)
          /\ Field(RawItems[i], "metadata") = Obj([score |-> Str("nested")])
          /\ OutItems[i].o.metadata.o.score = Str("nested")

\* the item's metadata is an object with an own key document_name
HasNestedDocumentName(r) ==
    /\ Field(r, "metadata").t = "object"
    /\ "document_name" \in DOMAIN Field(r, "metadata").o

(* C6 as stated: metadata.document_name is the item's top-level            *)
(* document_name, else its top-level source, else its nested               *)
(* metadata.document_name.                                                 *)
C6_TopLevelFirst ==
    Returned =>
        \A i \in 1..Len(RawItems) :
            LET r == RawItems[i]
                d == OutItems[i].o.metadata.o.document_name
            IN  /\ Present(r, "document_name") => d = r.o.document_name
                /\ ~Present(r, "document_name") /\ Present(r, "source") => d = r.o.source
                /\ ~Present(r, "document_name") /\ ~Present(r, "source")
                     /\ HasNestedDocumentName(r) => d = r.o.metadata.o.document_name

(* C6 amended: metadata.document_name is the nested metadata.document_name *)
(* whenever the item's metadata object has that key (null included);       *)
(* otherwise the top-level document_name, else the top-level source, else  *)
(* absent.                                                                 *)
C6_DocumentName ==
    Returned =>
        \A i \in 1..Len(RawItems) :
            LET r == RawItems[i]
                d == OutItems[i].o.metadata.o.document_name
            IN  IF HasNestedDocumentName(r) THEN d = r.o.metadata.o.document_name
                ELSE /\ Present(r, "document_name") => d = r.o.document_name
                     /\ ~Present(r, "document_name") /\ Present(r, "source")
                          => d = r.o.source
                     /\ ~Present(r, "document_name") /\ ~Present(r, "source")
                          => d = Undef

C6_Witness ==
    /\ Returned
    /\ \E i \in 1..Len(RawItems) :
          /\ Field(RawItems[i], "document_name") = Str("document_name")
          /\ Field(RawItems[i], "metadata") = Obj([document_name |-> Str("nested")])
          /\ OutItems[i].o.metadata.o.document_name = Str("nested")

ActionValues == {Str("search"), Str("explore"), Str("think"), Str("ppt")}

(* C7 as stated: the action of every normalized response is one of search, *)
(* explore, think, ppt.                                                    *)
C7_ActionIsOneOfFour == Returned => resp.o.action \in ActionValues

(* C7 amended: action is raw.action, else raw.action_type, else "search";  *)
(* it is one of the four when both are absent or when the one taken is one *)
(* of the four, and any other value is passed through unchanged.           *)
C7_Action ==
    Returned =>
        LET act == resp.o.action
        IN  /\ Present(raw, "action") => act = raw.o.action
            /\ ~Present(raw, "action") /\ Present(raw, "action_type")
                 => act = raw.o.action_type
            /\ ~Present(raw, "action") /\ ~Present(raw, "action_type")
                 => act = Str("search")
            /\ (Present(raw, "action") => raw.o.action \in ActionValues)
                 /\ (~Present(raw, "action") /\ Present(raw, "action_type")
                        => raw.o.action_type \in ActionValues)
                 => act \in ActionValues

C7_Witness ==
    /\ Returned
    /\ Field(raw, "action") = Str("summarize")
    /\ Field(raw, "action_type") = Str("ppt")
    /\ resp.o.action = Str("summarize")

(* C8 as stated: normalizing a normalized response returns it unchanged,   *)
(* field by field.                                                         *)
C8_Idempotent == resp2 # NoCall => resp2 = resp

\* normalize(x) with every null result source read as absent
SourceNullAsAbsent(v) ==
    Obj([v.o EXCEPT !.results =
        Arr([i \in 1..Len(v.o.results.a) |->
                Obj([v.o.results.a[i].o EXCEPT
                        !.source = IF @ = Null THEN Undef ELSE @])])])

(* C8 amended: normalizing a normalized response returns it unchanged in   *)
(* every field (success, message, query, action, timestamp, translation,   *)
(* each result's content, metadata and similarity), except that a result   *)
(* source that is null becomes undefined.                                  *)
C8_IdempotentButNullSource == resp2 # NoCall => resp2 = SourceNullAsAbsent(resp)

C8_Witness ==
    /\ resp2 # NoCall
    /\ now > 0
    /\ resp.o.timestamp = ToISOString(0)
    /\ Len(OutItems) = 1
    /\ OutItems[1].o.metadata.o.score = Num(9)
    /\ OutItems[1].o.source = Str("source")
    /\ resp2 = resp

---------------------------------------------------------------------------
---------------------------------------------------------------------------
(* Vocabulary of the properties of the extractor. *)

TextLines == SplitLines(text)

\* what the extractor tests of one trimmed line
Reading(line) ==
    [ line          |-> line,
      bullet        |-> TitleMatch(line).matched,
      title         |-> Trim(TitleMatch(line).group),
      url           |-> IsUrl(line),
      startsBullet  |-> BulletStart(line) # 0,
      startsHeading |-> HeadingStart(line),
      heading       |-> HeadingMatch(line).matched,
      headingText   |-> HeadingMatch(line).group ]

\* the readings of these lines, in order
ReadingsOf(lines) == [i \in 1..Len(lines) |-> Reading(Trim(lines[i]))]

\* the readings of the lines of the text
Readings == ReadingsOf(TextLines)

(* C10: extractLinks returns a sequence for every text, and the empty      *)
(* sequence for the empty text and for every text with no bullet line      *)
(* followed, somewhere later, by a URL line.                               *)
C10_EmptyWithoutBulletThenUrl ==
    links.called =>
        /\ text = <<>> => links.items = <<>>
        /\ \A R \in {Readings} :
              (~\E i, j \in DOMAIN R : i < j /\ R[i].bullet /\ R[j].url)
                  => links.items = <<>>

C10_Witness ==
    /\ links.called
    /\ \E R \in {Readings} :
          /\ Len(R) >= 2
          /\ \E i \in DOMAIN R : R[i].bullet
          /\ ~\E j \in DOMAIN R : R[j].url
    /\ links.items = <<>>

\* scanning forward from line i + 1 reaches URL line j before any line that
\* starts a bullet or a heading
ReachesUrlAt(R, i, j) ==
    /\ i < j
    /\ R[j].url
    /\ \A m \in (i + 1)..(j - 1) :
          ~R[m].url /\ ~R[m].startsBullet /\ ~R[m].startsHeading

ReachesUrl(R, i) == \E j \in DOMAIN R : ReachesUrlAt(R, i, j)

\* the URL the scan from bullet line i reaches
UrlOf(R, i) == R[CHOOSE j \in DOMAIN R : ReachesUrlAt(R, i, j)].line

\* the bullet lines whose scan reaches a URL
BulletsWithUrl(R) == {i \in DOMAIN R : R[i].bullet /\ ReachesUrl(R, i)}

\* those of them whose title is not blank
TitledBulletsWithUrl(R) == {i \in BulletsWithUrl(R) : R[i].title # <<>>}

\* the number of entries with this title and this URL
EntryCount(title, url) ==
    Cardinality({k \in 1..Len(links.items) :
                   links.items[k].title = title /\ links.items[k].url = url})

\* the k-th of these lines, counted in order
Nth(lines, k) == CHOOSE i \in lines : Cardinality({h \in lines : h <= i}) = k

\* the bullet line of entry k, entries and bullet lines counted in order
BulletOfEntry(R, k) == Nth(TitledBulletsWithUrl(R), k)

\* the section the claimed rule gives a heading text
LabelOf(heading) ==
    IF \E c \in 1..Len(heading) : LowerCase(heading[c]) = "most popular results"
    THEN Section(<<"Most Popular Results">>)
    ELSE IF \E c \in 1..Len(heading) : LowerCase(heading[c]) = "latest results"
    THEN Section(<<"Latest Results">>)
    ELSE Section(heading)

\* the section set by the last heading line before line i, absent if none
SectionBefore(R, i) ==
    LET before == {h \in 1..(i - 1) : R[h].heading}
    IN  IF before = {} THEN NoSection
        ELSE LabelOf(R[CHOOSE h \in before : \A g \in before : g <= h].headingText)

(* C11: the current section is absent until the first heading; a heading   *)
(* line sets it to 'Most Popular Results' or 'Latest Results' when its     *)
(* text matches that label in any letter case, and to its text otherwise;  *)
(* every entry carries the section set by the last heading line before     *)
(* its bullet.                                                             *)
C11_SectionOfLastHeading ==
    links.called =>
        \A R \in {Readings} :
            /\ Len(links.items) = Cardinality(TitledBulletsWithUrl(R))
            /\ \A k \in 1..Len(links.items) :
                  links.items[k].section = SectionBefore(R, BulletOfEntry(R, k))

C11_Witness ==
    /\ links.called
    /\ \E k \in 1..Len(links.items) :
          /\ links.items[k].section = Section(<<"Latest Results">>)
          /\ \E R \in {Readings} :
                \E h \in DOMAIN R :
                    R[h].heading /\ R[h].headingText = <<"LATEST RESULTS">>

(* C12 as stated: every bullet line whose forward scan reaches a URL line  *)
(* before a new bullet or heading gives exactly one entry, with the        *)
(* trimmed bold text as title and that URL line as url.                    *)
C12_OneEntryPerBulletWithUrl ==
    links.called =>
        \A R \in {Readings} :
            \A i \in BulletsWithUrl(R) :
                EntryCount(R[i].title, UrlOf(R, i)) =
                    Cardinality({h \in BulletsWithUrl(R) :
                                   /\ R[h].title = R[i].title
                                   /\ UrlOf(R, h) = UrlOf(R, i)})

(* C12: every bullet line with a title that is not blank, whose forward    *)
(* scan reaches a URL line before a line that starts a bullet or a         *)
(* heading, gives exactly one entry, with the trimmed bold text as title   *)
(* and the trimmed URL line as url; blank lines in between do not matter.  *)
C12_OneEntryPerTitledBulletWithUrl ==
    links.called =>
        \A R \in {Readings} :
            \A i \in TitledBulletsWithUrl(R) :
                EntryCount(R[i].title, UrlOf(R, i)) =
                    Cardinality({h \in TitledBulletsWithUrl(R) :
                                   /\ R[h].title = R[i].title
                                   /\ UrlOf(R, h) = UrlOf(R, i)})

C12_Witness ==
    /\ links.called
    /\ \E R \in {Readings} :
          \E i \in TitledBulletsWithUrl(R) :
              /\ i + 2 <= Len(R)
              /\ R[i + 1].line = <<>>
              /\ ReachesUrlAt(R, i, i + 2)
              /\ EntryCount(R[i].title, UrlOf(R, i)) = 1

(* C13: a bullet with no URL line between it and the next line that starts *)
(* a bullet or a heading, or the end of the text, gives no entry: every    *)
(* entry has the title of a bullet and the URL that bullet's scan reaches, *)
(* and there are no more entries than such bullets.                        *)
C13_NoEntryWithoutUrl ==
    links.called =>
        \A R \in {Readings} :
            /\ Len(links.items) <= Cardinality(BulletsWithUrl(R))
            /\ \A k \in 1..Len(links.items) :
                  \E i \in BulletsWithUrl(R) :
                      /\ links.items[k].title = R[i].title
                      /\ links.items[k].url = UrlOf(R, i)

C13_Witness ==
    /\ links.called
    /\ \E R \in {Readings} :
          \E i, h, j \in DOMAIN R :
              /\ i < h /\ h < j
              /\ R[i].bullet /\ R[i].title # <<>> /\ ~ReachesUrl(R, i)
              /\ R[h].bullet /\ ReachesUrlAt(R, h, j)
              /\ R[h].title # R[i].title
              /\ EntryCount(R[h].title, UrlOf(R, h)) = 1
              /\ \A k \in 1..Len(links.items) : links.items[k].title # R[i].title

(* C14: the entries come in the order of their bullet lines: entry k is    *)
(* the entry of the k-th bullet line that gives one.                       *)
C14_InBulletOrder ==
    links.called =>
        \A R \in {Readings} :
            /\ Len(links.items) = Cardinality(TitledBulletsWithUrl(R))
            /\ \A k \in 1..Len(links.items) :
                  /\ links.items[k].title = R[BulletOfEntry(R, k)].title
                  /\ links.items[k].url = UrlOf(R, BulletOfEntry(R, k))

C14_Witness ==
    /\ links.called
    /\ Len(links.items) = 2
    /\ links.items[1].title # links.items[2].title
    /\ \E R \in {Readings} :
          /\ links.items[1].title = R[BulletOfEntry(R, 1)].title
          /\ links.items[2].title = R[BulletOfEntry(R, 2)].title

\* the text has no white space at either end
IsTrimmed(q) == q = <<>> \/ (~IsSpace(q[1]) /\ ~IsSpace(q[Len(q)]))

\* the text has no asterisk and no emoji around it
IsStripped(q) ==
    q = <<>> \/ (q[1] \notin {"*", ChartEmoji, LinkGlyph} /\ q[Len(q)] # "*")

\* the text begins with http:// or https://, in any letter case
HasHttpScheme(q) == q # <<>> /\ LowerCase(q[1]) \in {"http://", "https://"}

(* C15 as stated: every entry has a title that is not empty, has no white  *)
(* space at either end and is stripped of surrounding asterisks and        *)
(* emoji, and a url that begins with http:// or https://.                  *)
C15_TitleStripped ==
    links.called =>
        \A k \in 1..Len(links.items) :
            /\ links.items[k].title # <<>>
            /\ IsTrimmed(links.items[k].title)
            /\ IsStripped(links.items[k].title)
            /\ HasHttpScheme(links.items[k].url)

(* C15: every entry has a title that is not empty and has no white space   *)
(* at either end, and a url that begins with http:// or https:// in any    *)
(* letter case; asterisks around the title are kept.                       *)
C15_TitleTrimmed ==
    links.called =>
        \A k \in 1..Len(links.items) :
            /\ links.items[k].title # <<>>
            /\ IsTrimmed(links.items[k].title)
            /\ HasHttpScheme(links.items[k].url)

C15_Witness ==
    /\ links.called
    /\ \E k \in 1..Len(links.items) :
          /\ links.items[k].title[1] = "*"
          /\ IsTrimmed(links.items[k].title)
          /\ links.items[k].url[1] = "HTTP://"

\* the URL line the scan from bullet line i reaches
UrlLineOf(R, i) == CHOOSE j \in DOMAIN R : ReachesUrlAt(R, i, j)

\* the bullet lines and the URL lines of the text
BulletLines(R) == {i \in DOMAIN R : R[i].bullet}
UrlLines(R) == {j \in DOMAIN R : R[j].url}

(* C29: every URL line of the input is the url of at most one entry and    *)
(* every bullet line gives at most one entry: the entries are those of     *)
(* distinct bullet lines that reach distinct URL lines, so there are no    *)
(* more entries than bullet lines and no more than URL lines.              *)
C29_AtMostOneEntryPerLine ==
    links.called =>
        \A R \in {Readings} :
            /\ Len(links.items) = Cardinality(TitledBulletsWithUrl(R))
            /\ Len(links.items) <= Cardinality(BulletLines(R))
            /\ Len(links.items) <= Cardinality(UrlLines(R))
            /\ \A k \in 1..Len(links.items) :
                  /\ links.items[k].title = R[BulletOfEntry(R, k)].title
                  /\ links.items[k].url = R[UrlLineOf(R, BulletOfEntry(R, k))].line
            /\ \A k, l \in 1..Len(links.items) :
                  k # l =>
                      /\ BulletOfEntry(R, k) # BulletOfEntry(R, l)
                      /\ UrlLineOf(R, BulletOfEntry(R, k)) #
                             UrlLineOf(R, BulletOfEntry(R, l))

C29_Witness ==
    /\ links.called
    /\ Len(links.items) = 1
    /\ \E R \in {Readings} :
          \E i, h, j \in DOMAIN R :
              /\ i < h /\ h < j
              /\ R[i].bullet /\ R[i].title # <<>>
              /\ R[h].bullet /\ R[h].title # <<>>
              /\ ReachesUrlAt(R, h, j)
              /\ Cardinality(UrlLines(R)) = 1

---------------------------------------------------------------------------
(* Vocabulary of the properties of the web content block. *)

\* the sections the render shows, in order
Shown == ShownSections(WebSections)

\* the label an entry is filed under: its section, 'Other' without one
LabelOfEntry(it) == IF it.section.defined THEN it.section.name ELSE Other

\* the entries filed under a label, in the order of the list
EntriesOf(label) == SelectSeq(links.items, LAMBDA it : LabelOfEntry(it) = label)

\* the place of the first entry filed under a label
FirstAt(label) ==
    CHOOSE k \in 1..Len(links.items) :
        /\ LabelOfEntry(links.items[k]) = label
        /\ \A h \in 1..(k - 1) : LabelOfEntry(links.items[h]) # label

\* the rank of a label in the display
Rank(label) ==
    IF label = <<"Most Popular Results">> THEN 1
    ELSE IF label = <<"Latest Results">> THEN 2
    ELSE IF label = Other THEN 4
    ELSE 3

\* what the render shows of section sec
Showing(sec) == Visible(WebSections.groups[sec], sec \in expandedWebSections)

\* the smaller of two numbers
Min(a, b) == IF a < b THEN a ELSE b

C17_Expansion ==
    /\ expandedWebSections = {}
    /\ [](~WebSections.threw =>
            \A p \in 1..Len(Shown) :
                LET all == EntriesOf(Shown[p])
                    n == Len(all)
                IN  Showing(Shown[p]) =
                        IF Shown[p] \in expandedWebSections THEN all
                        ELSE SubSeq(all, 1, Min(5, n)))
    /\ [][expandedWebSections' # expandedWebSections =>
            \E sec \in Members(Shown) :
                \/ sec \notin expandedWebSections
                     /\ expandedWebSections' = expandedWebSections \cup {sec}
                \/ sec \in expandedWebSections
                     /\ expandedWebSections' = expandedWebSections \ {sec}]_vars

C17_Witness ==
    /\ ~WebSections.threw
    /\ \E p, q \in 1..Len(Shown) :
          /\ Shown[p] \in expandedWebSections
          /\ Len(Showing(Shown[p])) = CollapsedCount + 1
          /\ Shown[q] \notin expandedWebSections
          /\ Len(EntriesOf(Shown[q])) = CollapsedCount + 1
          /\ Len(Showing(Shown[q])) = CollapsedCount

\* the number of places of a sequence that hold x
Occurrences(q, x) == Cardinality({p \in 1..Len(q) : q[p] = x})

(* C30: grouping the entries by section is a partition that keeps order:   *)
(* the block is rendered, every entry is in exactly one shown group, that  *)
(* of its section label or 'Other' when it has none, every label occurs    *)
(* once in the section order, and each group holds its entries in the      *)
(* order of the list.                                                      *)
C30_PartitionInOrder ==
    /\ ~WebSections.threw
    /\ \A k \in 1..Len(links.items) :
          Occurrences(Shown, LabelOfEntry(links.items[k])) = 1
    /\ \A k \in 1..Len(links.items) :
          Occurrences(WebSections.sectionOrder, LabelOfEntry(links.items[k])) = 1
    /\ \A p \in 1..Len(Shown) : WebSections.groups[Shown[p]] = EntriesOf(Shown[p])

---------------------------------------------------------------------------
(* Vocabulary of the properties of the presentation title. *)

\* the metadata of the first normalized result
PptMetadata == Prop(Prop(resp, "results").a[1], "metadata")

\* the runs after the last path separator of q
LastSegment(q) ==
    LET seps == {i \in 1..Len(q) : q[i] \in {"/", "\\"}}
    IN  IF seps = {} THEN q
        ELSE SubSeq(q, (CHOOSE i \in seps : \A h \in seps : h <= i) + 1, Len(q))

\* q without its last run when that run is one of S
WithoutSuffix(q, S) ==
    IF q # <<>> /\ q[Len(q)] \in S THEN SubSeq(q, 1, Len(q) - 1) ELSE q

\* a segment without a trailing extension, then without a trailing timestamp
CleanName(q) ==
    WithoutSuffix(WithoutSuffix(q, {".ppt", ".pptx", ".PPT", ".PPTX"}),
                  {"_20240101_120000"})

(* C18 as stated, for names that are strings: the title of a presentation  *)
(* result is the cleaned last path segment of metadata.file_name, or of    *)
(* metadata.ppt_path when file_name is absent (or empty), and 'Generated   *)
(* Presentation' when neither is present.                                  *)
C18_LastSegment ==
    pptTitle.rendered =>
        LET first == Prop(PptMetadata, "file_name")
            name == IF IsNullish(first) \/ first = Str("")
                    THEN Prop(PptMetadata, "ppt_path") ELSE first
        IN  IF IsNullish(name) \/ name = Str("")
            THEN pptTitle.title = <<"Generated Presentation">>
            ELSE name.t = "string" =>
                     pptTitle.title = CleanName(LastSegment(CharsOf(name)))

(* C18: the name is metadata.file_name, or metadata.ppt_path when          *)
(* file_name is absent or empty. With no name, or an empty one, the title  *)
(* is 'Generated Presentation'; with a name that is a string the title is  *)
(* its last path segment, or the whole name when it ends with a separator, *)
(* without a trailing .ppt or .pptx and then without a trailing timestamp; *)
(* a name that is no string makes the render throw.                        *)
C18_LastSegmentOrWholeName ==
    pptTitle.rendered =>
        LET first == Prop(PptMetadata, "file_name")
            name == IF IsNullish(first) \/ first = Str("")
                    THEN Prop(PptMetadata, "ppt_path") ELSE first
            runs == CharsOf(name)
        IN  IF IsNullish(name) \/ name = Str("")
            THEN ~pptTitle.threw /\ pptTitle.title = <<"Generated Presentation">>
            ELSE IF name.t # "string" THEN pptTitle.threw
            ELSE /\ ~pptTitle.threw
                 /\ pptTitle.title =
                      CleanName(IF LastSegment(runs) = <<>> THEN runs
                                ELSE LastSegment(runs))

C18_Witness ==
    /\ pptTitle.rendered
    /\ Prop(Prop(raw, "results").a[1], "metadata")
         = Obj([ppt_path |-> Chars(<<"out", "/", "deck", "_20240101_120000", ".pptx">>)])
    /\ pptTitle.title = <<"deck">>

---------------------------------------------------------------------------
(* Vocabulary of the properties of the query console. *)

\* the answer itself reports a failure: the request failed, or the payload
\* carries success: false
ReportsFailure(answer) ==
    \/ answer = Rejected
    \/ answer.t = "object" /\ "success" \in DOMAIN answer.o
         /\ answer.o["success"] = Bool(FALSE)

\* the answer is a payload that reports success
ReportsSuccess(answer) ==
    answer # Rejected /\ Truthy(Prop(answer, "success"))

\* a request settles in this step
Settles == lastSettled' # lastSettled

(* C19: handling a payload received over a successful exchange raises no   *)
(* failure notice unless the payload itself reports a failure: a missing   *)
(* or wrongly typed field is absorbed by the defaults.                     *)
C19_NoFailureNoticeForMalformed ==
    [][Settles /\ ~ReportsFailure(lastSettled'.answer)
          => lastToast'.variant # "destructive"]_vars

(* C20 as stated, for two requests of which the first sent settles last:   *)
(* once both have settled, the results displayed are those of the response *)
(* that resolved last.                                                     *)
C20_LastResolvedShown ==
    (sent = 2 /\ pending = Nothing /\ lastSettled.id = 1
        /\ lastSettled.answer # Rejected)
        => searchResults.from = lastSettled.id

(* C20: the results displayed are those of the last response that resolved *)
(* with success, whichever request was sent first: a response that         *)
(* resolves with success replaces the results displayed, and a response    *)
(* that resolves without it, or a request that fails, leaves them as they  *)
(* were.                                                                   *)
C20_LastSuccessShown ==
    /\ [](ReportsSuccess(lastSettled.answer) =>
            searchResults = [from |-> lastSettled.id,
                             response |-> normalizeQueryResponse(lastSettled.answer, now)])
    /\ [][~(Settles /\ ReportsSuccess(lastSettled'.answer))
             => searchResults' = searchResults]_vars

C20_Witness ==
    /\ sent = 2
    /\ pending = Nothing
    /\ lastSettled.id = 1
    /\ ReportsSuccess(lastSettled.answer)
    /\ searchResults.from = 1
    /\ activeTab = "results"

\* a request is sent in this step
Sends == sent' # sent

(* C23 as stated, for the request: after any selections of actions and     *)
(* languages, a request sent with an action that does not support         *)
(* translation, explore or ppt, has translate_to 'en'.                     *)
C23_NoTranslationForExploreOrPpt ==
    [][Sends /\ ~SupportsTranslation(selectedAction)
          => pending'[sent'].translateTo = "en"]_vars

(* C26: loading is true in every state in which a query request is in      *)
(* flight, whatever the clicks and Ctrl+Enter submissions were: it is      *)
(* false only when no request is outstanding.                              *)
C26_LoadingWhileInFlight == DOMAIN pending # {} => loading

---------------------------------------------------------------------------
(* Vocabulary of the properties of the upload form. *)

\* an upload starts, the request in flight settles, in this step
UploadStarts == upload = NoUpload /\ upload' # NoUpload
UploadSettles == upload # NoUpload /\ upload' = NoUpload

\* the response of the upload request arrives in this step
UploadResponds ==
    UploadSettles /\ lastToast'.title \in {"Upload successful", "Upload failed"}

\* the files that leave the selected list in this step
Leaving == {f \in Members(files) : f \notin Members(files')}

\* the user removes one file in this step
Removes == ~uploading /\ ~UploadSettles /\ Len(files') = Len(files) - 1

(* C21 as stated: uploadProgress starts at 0 when an upload starts, is     *)
(* raised by the timer in steps of 10, is at most 90 while the request is  *)
(* in flight, whatever the number of ticks, and is 100 when the response   *)
(* has arrived.                                                            *)
C21_ProgressCompleted ==
    /\ [](upload # NoUpload => uploadProgress \in 0..90)
    /\ [][UploadStarts => uploadProgress' = 0]_vars
    /\ [][(~UploadStarts /\ ~UploadSettles /\ uploadProgress' # uploadProgress)
             => uploadProgress' = uploadProgress + 10]_vars
    /\ [][UploadResponds => uploadProgress' = 100]_vars

(* C24 as stated: whenever no upload is going on, no progress timer is set *)
(* and uploadProgress is 0.                                                *)
C24_TimerCancelled == ~uploading => (timers = {} /\ uploadProgress = 0)

(* C25 as stated: a file leaves the selected list only when the user       *)
(* removes it or when the upload request that carried it succeeds.         *)
C25_NoFileLost ==
    [][\A f \in Leaving :
          \/ Removes
          \/ /\ UploadSettles
             /\ lastToast'.title = "Upload successful"
             /\ f \in Members(upload.files)]_vars

---------------------------------------------------------------------------
(* Vocabulary of the properties of the status panel. *)

\* a health request is sent in this step
SendsHealthRequest == checking' > checking

\* the browser fires the online event in this step, the panel being mounted
OnlineEvent == mounted /\ ~online /\ online'

(* C27 as stated: a health request is sent, by the timer, by the online    *)
(* handler or by the refresh button, only if the browser is online at that *)
(* moment.                                                                 *)
C27_NoRequestWhileOffline == [][SendsHealthRequest => online']_vars

(* C28 as stated, for the request: whenever the browser fires an online    *)
(* event, the panel sends a health request, whether it was mounted online  *)
(* or offline.                                                             *)
C28_OnlineEventChecksHealth == [][OnlineEvent => SendsHealthRequest]_vars

---------------------------------------------------------------------------
(* Vocabulary of the properties of failed operations. *)

\* a query request, a health request settles in this step
QuerySettles == sent' = sent /\ DOMAIN pending' # DOMAIN pending
HealthSettles == checking' < checking

\* the toast raised last is a failure notice among these
NoticeAmong(notices) == lastToast' \in notices /\ lastToast'.variant = "destructive"

====
